---- MODULE Spec2Model ----
(***************************************************************************)
(* Model of the document ingestion pipeline and of the retrieval service   *)
(* of the supply-chain assistant backend:                                  *)
(*   backend/tasks/document_tasks.py   process_document (Celery task)      *)
(*   backend/api/temporal.py           update_temporal_config              *)
(*   backend/services/rag_service.py   RAGService                          *)
(*   backend/services/alert_service.py SupplyChainAlertDetector            *)
(*   backend/api/messages.py           send_message, generate_stream       *)
(*   backend/services/llm_service.py   LLMService.stream_response          *)
(*   backend/services/knowledge_service.py KnowledgeService                *)
(*   backend/services/document_parser.py ExcelParser, WordParser           *)
(*   backend/services/temporal_service.py detect_temporal_columns          *)
(*   backend/api/files.py              delete_file                         *)
(*   backend/tasks/__init__.py         the time limits of the tasks        *)
(*                                                                         *)
(* Texts (error messages, chunk contents, column headers) are sequences of *)
(* one-character strings, so that lower(), the "in" substring test and     *)
(* slicing are computed as the code computes them.  An optional value      *)
(* (Python None or a value) is a sequence of length 0 or 1.                *)
(*                                                                         *)
(* The database, Redis and the search index are available and a commit     *)
(* writes the attributes assigned since the last one; the object store,    *)
(* the parsers and the embedding endpoint can fail.  SpecFaults adds the   *)
(* failure of the handler's own commit and the hard time limit.            *)
(***************************************************************************)
EXTENDS Integers, Sequences, FiniteSets, TLC

None == <<>>
Some(x) == <<x>>

(***************************************************************************)
(* Bounds of the model.                                                    *)
(***************************************************************************)
NumWorkers == 2
MaxTasks == 2
MaxRuns == 4
ErrLongLen == 501
MaxClock == 86400
MaxTopK == 2
MaxBatch == 2

(***************************************************************************)
(* Program constants.                                                      *)
(***************************************************************************)
MaxRetries == 3
RetryBase == 5
ErrMaxLen == 500
CacheTtl == 86400
DocTtlHours == 24
SecondsPerHour == 3600

(***************************************************************************)
(* Text helpers: str.lower(), "pat in s", s[:n].                           *)
(***************************************************************************)
Upper == <<"A","B","C","D","E","F","G","H","I","J","K","L","M",
           "N","O","P","Q","R","S","T","U","V","W","X","Y","Z">>
LowerOf == <<"a","b","c","d","e","f","g","h","i","j","k","l","m",
             "n","o","p","q","r","s","t","u","v","w","x","y","z">>

LowerChar(c) ==
    IF \E i \in 1..26 : Upper[i] = c
    THEN LowerOf[CHOOSE i \in 1..26 : Upper[i] = c]
    ELSE c

Lower(s) == [i \in 1..Len(s) |-> LowerChar(s[i])]

Contains(s, pat) ==
    \E i \in 0..(Len(s) - Len(pat)) :
        \A j \in 1..Len(pat) : s[i + j] = pat[j]

Truncate(s, n) == IF Len(s) <= n THEN s ELSE SubSeq(s, 1, n)

KwTimeout == <<"t","i","m","e","o","u","t">>
KwConnection == <<"c","o","n","n","e","c","t","i","o","n">>

(***************************************************************************)
(* Error texts.  ErrDownload and ErrIndex are the literals of              *)
(* process_document; the others are texts of exceptions raised by the      *)
(* storage client and by the parsers' libraries, which process_document    *)
(* receives as they are.                                                   *)
(***************************************************************************)
ErrDownload ==
    <<"F","a","i","l","e","d"," ","t","o"," ","d","o","w","n","l","o","a","d",
      " ","f","i","l","e"," ","f","r","o","m"," ","M","i","n","I","O">>
ErrIndex ==
    <<"F","a","i","l","e","d"," ","t","o"," ","i","n","d","e","x"," ",
      "c","h","u","n","k","s"," ","i","n"," ","T","y","p","e","S","e","n","s","e">>
ErrConnRefused ==
    <<"C","o","n","n","e","c","t","i","o","n"," ","r","e","f","u","s","e","d">>
ErrBadZip ==
    <<"F","i","l","e"," ","i","s"," ","n","o","t"," ","a"," ","z","i","p",
      " ","f","i","l","e">>
ErrParseConn ==
    <<"N","o"," ","i","t","e","m"," ","x","l","/","c","o","n","n","e","c","t",
      "i","o","n","s",".","x","m","l">>
ErrLong == [i \in 1..ErrLongLen |-> "x"]

DownloadErrors == {ErrDownload, ErrConnRefused}
ParseErrors == {ErrBadZip, ErrParseConn, ErrLong}
\* str(e) of the exceptions that reach the handler of process_document.
FailureTexts == DownloadErrors \cup ParseErrors \cup {ErrIndex}


(***************************************************************************)
(* Numbers in texts: the regular expressions of the detectors, float()     *)
(* and str() of a float.  A number is [neg, int, frac]: sign, integer      *)
(* part, and the fractional digits without trailing zeros.  Inputs are     *)
(* plain decimals (no exponent, no inf/nan, no surrounding blanks).        *)
(***************************************************************************)
DigitChars == <<"0","1","2","3","4","5","6","7","8","9">>
IsDigit(c) == \E i \in 1..10 : DigitChars[i] = c
DigitVal(c) == (CHOOSE i \in 1..10 : DigitChars[i] = c) - 1

RECURSIVE ParseNat(_)
ParseNat(ds) ==
    IF ds = <<>> THEN 0
    ELSE 10 * ParseNat(SubSeq(ds, 1, Len(ds) - 1)) + DigitVal(ds[Len(ds)])

RECURSIVE NatStr(_)
NatStr(n) ==
    IF n < 10 THEN <<DigitChars[n + 1]>>
    ELSE NatStr(n \div 10) \o <<DigitChars[(n % 10) + 1]>>

RECURSIVE StripZeros(_)
StripZeros(ds) ==
    IF ds # <<>> /\ ds[Len(ds)] = "0"
    THEN StripZeros(SubSeq(ds, 1, Len(ds) - 1))
    ELSE ds

\* Last index k >= i - 1 such that s[i..k] are all digits (greedy \d*).
RECURSIVE DigitsEnd(_, _)
DigitsEnd(s, i) ==
    IF i <= Len(s) /\ IsDigit(s[i]) THEN DigitsEnd(s, i + 1) ELSE i - 1

AllDigits(ds) == \A i \in 1..Len(ds) : IsDigit(ds[i])

\* float(s) for s = [+-]? digits [. digits]? | [+-]? . digits ; None is ValueError.
ParseFloat(s) ==
    LET signed == s # <<>> /\ s[1] \in {"-", "+"}
        neg == s # <<>> /\ s[1] = "-"
        body == IF signed THEN SubSeq(s, 2, Len(s)) ELSE s
        dots == {i \in 1..Len(body) : body[i] = "."}
        dot == IF dots = {} THEN Len(body) + 1 ELSE CHOOSE i \in dots : TRUE
        ip == SubSeq(body, 1, dot - 1)
        fp == SubSeq(body, dot + 1, Len(body))
    IN IF Cardinality(dots) <= 1 /\ AllDigits(ip) /\ AllDigits(fp)
          /\ Len(ip) + Len(fp) > 0
       THEN Some([neg |-> neg, int |-> ParseNat(ip), frac |-> StripZeros(fp)])
       ELSE None

NumIsZero(v) == v.int = 0 /\ v.frac = <<>>
NumLtZero(v) == v.neg /\ ~NumIsZero(v)
\* v > n and 0 < v < n for a natural n >= 1
NumGtNat(v, n) == ~v.neg /\ (v.int > n \/ (v.int = n /\ v.frac # <<>>))
NumBetweenZeroAnd(v, n) == ~v.neg /\ ~NumIsZero(v) /\ v.int < n

\* str(float): "-50.5", "7.0"
FloatStr(v) ==
    (IF v.neg THEN <<"-">> ELSE <<>>) \o NatStr(v.int) \o <<".">>
        \o (IF v.frac = <<>> THEN <<"0">> ELSE v.frac)

\* str.replace(',', '.')
ReplaceComma(s) == [i \in 1..Len(s) |-> IF s[i] = "," THEN "." ELSE s[i]]

\* re.findall(r'-?\d+\.?\d*', s) when signed, re.findall(r'\d+\.?\d*', s) otherwise
RECURSIVE FindNumbers(_, _, _)
FindNumbers(s, i, signed) ==
    IF i > Len(s) THEN <<>>
    ELSE LET minus == signed /\ s[i] = "-" /\ i < Len(s) /\ IsDigit(s[i + 1])
             first == IF minus THEN i + 1 ELSE i
         IN IF ~IsDigit(s[first]) THEN FindNumbers(s, i + 1, signed)
            ELSE LET k == DigitsEnd(s, first)
                     k3 == IF k < Len(s) /\ s[k + 1] = "."
                           THEN DigitsEnd(s, k + 2) ELSE k
                 IN <<SubSeq(s, i, k3)>> \o FindNumbers(s, k3 + 1, signed)

(***************************************************************************)
(* SupplyChainAlertDetector.                                               *)
(***************************************************************************)
max_lead_time_days == 90
min_lead_time_days == 1

stock_keywords == <<
    <<"s","t","o","c","k">>, <<"i","n","v","e","n","t","o","r","y">>, <<"q","u","a","n","t","i","t","y">>, <<"q","t","y">>, <<"q","u","a","n","t","i","t","é">>, <<"i","n","v","e","n","t","a","i","r","e">> >>
quantity_keywords == << <<"q","u","a","n","t","i","t","y">>, <<"q","t","y">>, <<"q","u","a","n","t","i","t","é">>, <<"q","t","é">> >>
KwLeadTime == <<"l","e","a","d"," ","t","i","m","e">>
KwDelai == <<"d","é","l","a","i">>

AnyKeywordIn(kws, s) == \E k \in 1..Len(kws) : Contains(s, kws[k])

Alert(type, severity, chunk, v) ==
    [alert_type |-> type, severity |-> severity,
     chunk_metadata |-> chunk.metadata, value |-> v]

RECURSIVE NegativeAlerts(_, _)
NegativeAlerts(chunk, tokens) ==
    IF tokens = <<>> THEN <<>>
    ELSE LET v == ParseFloat(tokens[1])[1]
         IN (IF NumLtZero(v)
             THEN <<Alert("negative_stock", "critical", chunk, v)>> ELSE <<>>)
            \o NegativeAlerts(chunk, Tail(tokens))

RECURSIVE CsvStockAlerts(_, _)
CsvStockAlerts(chunk, k) ==
    IF k > Len(stock_keywords) THEN <<>>
    ELSE (IF Contains(Lower(chunk.content), stock_keywords[k])
          THEN NegativeAlerts(chunk, FindNumbers(chunk.content, 1, TRUE))
          ELSE <<>>)
         \o CsvStockAlerts(chunk, k + 1)

detect_negative_stock(chunk) ==
    IF chunk.file_type = "excel"
    THEN LET v == ParseFloat(ReplaceComma(chunk.metadata.value))
         IN IF AnyKeywordIn(stock_keywords, Lower(chunk.metadata.column_header))
               /\ v # None /\ NumLtZero(v[1])
            THEN <<Alert("negative_stock", "critical", chunk, v[1])>>
            ELSE <<>>
    ELSE IF chunk.file_type = "csv" THEN CsvStockAlerts(chunk, 1)
    ELSE <<>>

detect_negative_quantity(chunk) ==
    IF chunk.file_type = "excel"
    THEN LET column_header == Lower(chunk.metadata.column_header)
             v == ParseFloat(ReplaceComma(chunk.metadata.value))
         IN IF AnyKeywordIn(quantity_keywords, column_header)
               /\ ~AnyKeywordIn(stock_keywords, column_header)
               /\ v # None /\ NumLtZero(v[1])
            THEN <<Alert("negative_quantity", "warning", chunk, v[1])>>
            ELSE <<>>
    ELSE <<>>

\* Detection without alerting: the function only logs.
detect_date_inconsistency(chunk) == <<>>

\* The thresholds are attributes of the detector (lines 47-48); self is a
\* detector, alert_detector the one of line 297.
alert_detector ==
    [max_lead_time_days |-> max_lead_time_days,
     min_lead_time_days |-> min_lead_time_days]

RECURSIVE LeadTimeAlertsOf(_, _, _)
LeadTimeAlertsOf(self, chunk, tokens) ==
    IF tokens = <<>> THEN <<>>
    ELSE LET days == ParseFloat(tokens[1])[1]
         IN (IF NumGtNat(days, self.max_lead_time_days)
             THEN <<Alert("lead_time_outlier", "warning", chunk, days)>>
             ELSE IF NumBetweenZeroAnd(days, self.min_lead_time_days)
             THEN <<Alert("lead_time_outlier", "info", chunk, days)>>
             ELSE <<>>)
            \o LeadTimeAlertsOf(self, chunk, Tail(tokens))

LeadTimeAlerts(chunk, tokens) == LeadTimeAlertsOf(alert_detector, chunk, tokens)

detect_lead_time_outlier_of(self, chunk) ==
    IF Contains(Lower(chunk.content), KwLeadTime)
       \/ Contains(Lower(chunk.content), KwDelai)
    THEN LeadTimeAlertsOf(self, chunk, FindNumbers(chunk.content, 1, FALSE))
    ELSE <<>>

detect_lead_time_outlier(chunk) == detect_lead_time_outlier_of(alert_detector, chunk)

RECURSIVE detect_all_alerts_of(_, _)
detect_all_alerts_of(self, chunks) ==
    IF chunks = <<>> THEN <<>>
    ELSE LET chunk == chunks[1]
             structured == chunk.file_type \in {"excel", "csv"}
         IN detect_negative_stock(chunk)
            \o detect_negative_quantity(chunk)
            \o (IF structured THEN detect_date_inconsistency(chunk) ELSE <<>>)
            \o (IF structured THEN detect_lead_time_outlier_of(self, chunk) ELSE <<>>)
            \o detect_all_alerts_of(self, Tail(chunks))

detect_all_alerts(chunks) == detect_all_alerts_of(alert_detector, chunks)


(***************************************************************************)
(* The uploaded files.  user_id and file_type are set by upload_file and   *)
(* never change; the stored bytes are given by what the parser returns     *)
(* for them (blob).                                                        *)
(***************************************************************************)
Files == {"f1"}
FileInfo == [f \in Files |-> [user_id |-> "u1", file_type |-> "excel"]]

TxtStockHeader == <<"S","t","o","c","k",":"," ","S","t","o","c","k">>
TxtStockCell == <<"S","t","o","c","k",":"," ","-","5">>

ExcelChunk(content, header, value, ref) ==
    [content |-> content, file_type |-> "excel",
     metadata |-> [file_type |-> "excel", cell_ref |-> ref,
                   column_header |-> header, value |-> value]]

\* A workbook with one sheet: the header cell "Stock" and the cell -5.
ParsedChunks ==
    [f \in Files |->
        << ExcelChunk(TxtStockHeader, <<"S","t","o","c","k">>,
                      <<"S","t","o","c","k">>, "A1"),
           ExcelChunk(TxtStockCell, <<"S","t","o","c","k">>,
                      <<"-","5">>, "A2") >>]

\* The bytes stored for a file: a readable workbook, or bytes on which the
\* parser raises (a file that is no zip archive, a workbook with a missing
\* part, a failure with a long message).
BlobKinds == {"workbook", "bad_zip", "missing_part", "long_error"}

\* What parser.parse does with a file's bytes: the chunks, or an exception.
ParserResult(f, kind) ==
    IF kind = "workbook" THEN [chunks |-> ParsedChunks[f], parse_error |-> None]
    ELSE [chunks |-> <<>>,
          parse_error |-> Some(IF kind = "bad_zip" THEN ErrBadZip
                               ELSE IF kind = "missing_part" THEN ErrParseConn
                               ELSE ErrLong)]

(***************************************************************************)
(* RAGService: embedding cache, embedding endpoint, index.                 *)
(***************************************************************************)
Vectors == {<<1, 2>>, <<3, 4>>}
IngestVectors == {<<1, 2>>}
\* Outcome of requests.post + raise_for_status + response.json():
\* an exception, or a body whose 'embedding' is a vector or is empty/missing.
Responses(vectors) ==
    {[error |-> TRUE, embedding |-> <<>>]}
    \cup {[error |-> FALSE, embedding |-> e] : e \in vectors \cup {<<>>}}

\* hashlib.sha256(text.encode()).hexdigest(): one digest per text.
Sha256(text) == <<"sha256", text>>
\* Variant of line 90 that hashes the lower-cased text.
CacheKeyLower(text) == <<"embedding:", Sha256(Lower(text))>>
\* Line 90.
CacheKey(text) == <<"embedding:", Sha256(text)>>
JsonDumps(v) == <<"json", v>>
JsonLoads(j) == j[2]

RedisGet(c, key, t) ==
    IF key \in DOMAIN c /\ t < c[key].expires_at THEN Some(c[key].value) ELSE None
RedisSetex(c, key, ttl, value, t) ==
    (key :> [value |-> value, expires_at |-> t + ttl]) @@ c

\* Result of one call: the returned embedding (None on failure), the cache
\* afterwards, and the number of calls made to the endpoint.
generate_embedding(c, text, t, response) ==
    LET cache_key == CacheKey(text)
        cached == RedisGet(c, cache_key, t)
    IN IF cached # None
       THEN [ret |-> Some(JsonLoads(cached[1])), cache |-> c, calls |-> 0]
       ELSE IF response.error \/ response.embedding = <<>>
       THEN [ret |-> None, cache |-> c, calls |-> 1]
       ELSE [ret |-> Some(response.embedding),
             cache |-> RedisSetex(c, cache_key, CacheTtl,
                                  JsonDumps(response.embedding), t),
             calls |-> 1]

batch_size == 10

\* The inner loop "for text in batch" from position i to position last.
RECURSIVE EmbedBatch(_, _, _, _, _, _)
EmbedBatch(acc, texts, i, last, t, responses) ==
    IF i > last THEN acc
    ELSE LET r == generate_embedding(acc.cache, texts[i], t, responses[i])
         IN EmbedBatch([embeddings |-> Append(acc.embeddings, r.ret),
                        cache |-> r.cache, calls |-> acc.calls + r.calls],
                       texts, i + 1, last, t, responses)

\* The outer loop "for i in range(0, len(texts), batch_size)".
RECURSIVE EmbedBatches(_, _, _, _, _)
EmbedBatches(acc, texts, i, t, responses) ==
    IF i > Len(texts) THEN acc
    ELSE LET last == IF i + batch_size - 1 < Len(texts)
                     THEN i + batch_size - 1 ELSE Len(texts)
         IN EmbedBatches(EmbedBatch(acc, texts, i, last, t, responses),
                         texts, i + batch_size, t, responses)

\* Variant of generate_embeddings_batch that returns only the embeddings
\* that were computed, leaving out the failed positions.
generate_embeddings_batch_compact(c, texts, t, responses) ==
    LET b == EmbedBatches([embeddings |-> <<>>, cache |-> c, calls |-> 0],
                          texts, 1, t, responses)
    IN [b EXCEPT !.embeddings = SelectSeq(@, LAMBDA e : e # None)]
generate_embeddings_batch(c, texts, t, responses) ==
    EmbedBatches([embeddings |-> <<>>, cache |-> c, calls |-> 0],
                 texts, 1, t, responses)

ChunkId(file_id, idx) == <<file_id, "_", idx>>

RECURSIVE Documents(_, _, _, _, _, _)
Documents(chunks, embeddings, idx, user_id, file_id, expires_at) ==
    IF idx >= Len(chunks) \/ idx >= Len(embeddings) THEN <<>>
    ELSE (IF embeddings[idx + 1] = None THEN <<>>
          ELSE << [chunk_id |-> ChunkId(file_id, idx),
                   user_id |-> user_id,
                   file_id |-> file_id,
                   content |-> chunks[idx + 1].content,
                   embedding |-> embeddings[idx + 1][1],
                   metadata |-> JsonDumps(chunks[idx + 1].metadata),
                   document_expires_at |-> expires_at] >>)
         \o Documents(chunks, embeddings, idx + 1, user_id, file_id, expires_at)

\* Variant of index_chunks that indexes nothing unless every chunk has an
\* embedding.
index_chunks_strict(idx, c, chunks, user_id, file_id, t, responses, import_ok) ==
    LET texts == [i \in 1..Len(chunks) |-> chunks[i].content]
        b == generate_embeddings_batch(c, texts, t, responses)
        expires_at == t + DocTtlHours * SecondsPerHour
        complete == \A i \in 1..Len(b.embeddings) : b.embeddings[i] # None
        documents == IF complete
                     THEN Documents(chunks, b.embeddings, 0, user_id, file_id,
                                    expires_at)
                     ELSE <<>>
    IN [embeddings |-> b.embeddings,
        documents |-> documents,
        cache |-> b.cache,
        calls |-> b.calls,
        index |-> IF documents # <<>> /\ import_ok THEN idx \o documents ELSE idx,
        success |-> documents # <<>> /\ import_ok]
\* index_chunks: the embeddings computed, the documents prepared, the
\* index and the cache afterwards, and the value returned.  import_ok is
\* whether documents.import_ returns (TRUE) or raises (FALSE).
index_chunks(idx, c, chunks, user_id, file_id, t, responses, import_ok) ==
    LET texts == [i \in 1..Len(chunks) |-> chunks[i].content]
        b == generate_embeddings_batch(c, texts, t, responses)
        expires_at == t + DocTtlHours * SecondsPerHour
        documents == Documents(chunks, b.embeddings, 0, user_id, file_id, expires_at)
    IN [embeddings |-> b.embeddings,
        documents |-> documents,
        cache |-> b.cache,
        calls |-> b.calls,
        index |-> IF documents # <<>> /\ import_ok THEN idx \o documents ELSE idx,
        success |-> documents # <<>> /\ import_ok]

\* "if file_id:" (line 248): None and the empty text are both false.
Truthy(file_id) == file_id # None /\ file_id[1] # ""

\* Variant of lines 238-249 in which the file filter replaces the owner
\* filter instead of being appended to it.
SearchParametersFileOnly(query, query_embedding, user_id, top_k, file_id) ==
    [q |-> query,
     query_by |-> "content",
     vector_query |-> [field |-> "embedding", vector |-> query_embedding,
                       k |-> top_k * 2],
     filter_by |-> IF Truthy(file_id)
                   THEN <<"file_id", ":=", file_id[1]>>
                   ELSE <<"user_id", ":=", user_id>>,
     per_page |-> top_k]
\* Lines 238-249: the search parameters.  filter_by is the filter text, one
\* element per token.
SearchParameters(query, query_embedding, user_id, top_k, file_id) ==
    [q |-> query,
     query_by |-> "content",
     vector_query |-> [field |-> "embedding", vector |-> query_embedding,
                       k |-> top_k * 2],
     filter_by |-> <<"user_id", ":=", user_id>>
                   \o (IF Truthy(file_id)
                       THEN <<"&&", "file_id", ":=", file_id[1]>>
                       ELSE <<>>),
     per_page |-> top_k]

\* The index evaluating a filter "field:=value && field:=value ..." on a
\* document.
RECURSIVE EvalFilter(_, _)
EvalFilter(tokens, doc) ==
    IF Len(tokens) < 3 THEN TRUE
    ELSE /\ tokens[2] = ":="
         /\ doc[tokens[1]] = tokens[3]
         /\ \/ Len(tokens) = 3
            \/ tokens[4] = "&&" /\ EvalFilter(SubSeq(tokens, 5, Len(tokens)), doc)

Reverse(seq) == [i \in 1..Len(seq) |-> seq[Len(seq) + 1 - i]]

\* documents.search (line 252): the hits are documents that satisfy the
\* filter, at most per_page of them, in the order of the ranking; the
\* ranking is one of two orders, as the model computes no text match and no
\* vector distance.
DocumentsSearch(idx, params, ranking) ==
    LET matching == SelectSeq(idx, LAMBDA d : EvalFilter(params.filter_by, d))
        ranked == IF ranking = "desc" THEN Reverse(matching) ELSE matching
        n == IF Len(ranked) < params.per_page THEN Len(ranked)
             ELSE params.per_page
    IN [i \in 1..n |-> [document |-> ranked[i]]]

\* Lines 254-263.
FormatResults(hits) ==
    [i \in 1..Len(hits) |->
        [content |-> hits[i].document.content,
         metadata |-> JsonLoads(hits[i].document.metadata)]]

\* hybrid_search: the value returned, the parameters sent to the index (if
\* any), the hits it answered, the cache afterwards and the number of calls
\* made to the endpoint.
hybrid_search(idx, c, query, user_id, top_k, file_id, t, response, ranking) ==
    LET g == generate_embedding(c, query, t, response)
    IN IF g.ret = None
       THEN [ret |-> <<>>, sent |-> None, hits |-> <<>>, cache |-> g.cache,
             calls |-> g.calls]
       ELSE LET params == SearchParameters(query, g.ret[1], user_id, top_k,
                                           file_id)
                hits == DocumentsSearch(idx, params, ranking)
            IN [ret |-> FormatResults(hits), sent |-> Some(params),
                hits |-> hits, cache |-> g.cache, calls |-> g.calls]


(***************************************************************************)
(* _extract_temporal_metadata.  Dates are the 'YYYY-MM-DD' texts that the  *)
(* parsers put in temporal_context; any other text does not parse.         *)
(***************************************************************************)
ParseIsoDate(s) ==
    IF Len(s) = 10 /\ s[5] = "-" /\ s[8] = "-"
       /\ AllDigits(SubSeq(s, 1, 4)) /\ AllDigits(SubSeq(s, 6, 7))
       /\ AllDigits(SubSeq(s, 9, 10))
    THEN Some(<<ParseNat(SubSeq(s, 1, 4)), ParseNat(SubSeq(s, 6, 7)),
                ParseNat(SubSeq(s, 9, 10))>>)
    ELSE None

Pad(ds, n) == [i \in 1..(n - Len(ds)) |-> "0"] \o ds
FormatIsoDate(d) ==
    Pad(NatStr(d[1]), 4) \o <<"-">> \o Pad(NatStr(d[2]), 2) \o <<"-">>
        \o Pad(NatStr(d[3]), 2)

DateLeq(a, b) ==
    \/ a[1] < b[1]
    \/ a[1] = b[1] /\ a[2] < b[2]
    \/ a[1] = b[1] /\ a[2] = b[2] /\ a[3] <= b[3]

TemporalContexts(chunks) ==
    {chunks[i].metadata.temporal_context :
        i \in {j \in 1..Len(chunks) :
                 "temporal_context" \in DOMAIN chunks[j].metadata}}

extract_temporal_metadata(chunks, t) ==
    LET tcs == TemporalContexts(chunks)
        detected_columns ==
            {key \in UNION {DOMAIN tc : tc \in tcs} :
                \E tc \in tcs : key \in DOMAIN tc /\ tc[key] # <<>>}
        all_dates ==
            {ParseIsoDate(tc[key])[1] :
                <<tc, key>> \in {<<c, k>> \in tcs \X detected_columns :
                    k \in DOMAIN c /\ c[k] # <<>> /\ ParseIsoDate(c[k]) # None}}
        base == [upload_date |-> t,
                 detected_date_columns |-> detected_columns,
                 user_configured_columns |-> None,
                 lead_time_stats |-> None]
    IN IF all_dates = {} THEN base
       ELSE ("time_range" :>
                [earliest |-> FormatIsoDate(
                     CHOOSE d \in all_dates : \A e \in all_dates : DateLeq(d, e)),
                 latest |-> FormatIsoDate(
                     CHOOSE d \in all_dates : \A e \in all_dates : DateLeq(e, d))])
            @@ base

(***************************************************************************)
(* State.                                                                  *)
(***************************************************************************)
VARIABLES
    files,      \* table files: the mutable columns of each row
    blob,       \* object store: the kind of bytes stored for each file
    alerts,     \* table alerts, in insertion order
    index,      \* the documents of collection document_chunks
    cache,      \* the embedding cache: key -> [value, expires_at]
    tasks,      \* process_document messages waiting in the queue
    results,    \* result backend: state and return value of each task
    runs,       \* the process_document execution of each worker, if any
    now,        \* the clock, in seconds
    next_task,  \* next task id (the ids given by delay())
    next_alert, \* next alert id (the ids given by uuid4)
    overlapped, \* per file: have two runs of it been active at once
    started,    \* number of executions of process_document started so far
    last,       \* the last direct call of a service method: arguments and outcome
    fetched,    \* per text: the last vector the endpoint returned, and when
    chat        \* the conversation and its chat turn (send_message)

vars == <<files, blob, alerts, index, cache, tasks, results, runs, now,
          next_task, next_alert, overlapped, started, last, fetched, chat>>

Workers == 1..NumWorkers
Idle == None

\* The user configurations sent to update_temporal_config.
Configs ==
    {[date_columns |-> Some(<<"order_date">>), lead_time_pairs |-> None]}

Init ==
    /\ files = [f \in Files |-> [processing_status |-> "pending",
                                 error_message |-> None,
                                 temporal_metadata |-> None]]
    /\ blob \in [Files -> BlobKinds]
    /\ alerts = <<>>
    /\ index = <<>>
    /\ cache = <<>>
    /\ tasks = {[id |-> 1, file |-> "f1", retries |-> 0, countdown |-> 0]}
    /\ results = [i \in {1} |-> [state |-> "PENDING", ret |-> None]]
    /\ runs = [w \in Workers |-> Idle]
    /\ now = 0
    /\ next_task = 2
    /\ next_alert = 1
    /\ overlapped = [f \in Files |-> FALSE]
    /\ started = 0
    /\ last = None
    /\ fetched = [text \in {} |-> None]
    /\ chat = None

Running(f) == {w \in Workers : runs[w] # Idle /\ runs[w][1].file = f}

\* What the endpoint answers when asked for the text; it is asked only for a
\* text that the cache does not hold.
Asked(text) == RedisGet(cache, CacheKey(text), now) = None
Answers(text, vectors) ==
    IF Asked(text) THEN Responses(vectors)
    ELSE {[error |-> TRUE, embedding |-> <<>>]}
\* The answers to a batch of texts.
BatchAnswers(chunks, vectors) ==
    {rs \in [1..Len(chunks) -> Responses(vectors)] :
        \A i \in 1..Len(chunks) : rs[i] \in Answers(chunks[i].content, vectors)}

(***************************************************************************)
(* process_document.  Each action is the stretch of the task from one      *)
(* write to a store shared with other workers up to the next one.          *)
(***************************************************************************)
\* The chunks that a run has parsed, and the alerts that detect_all_alerts
\* finds in them (evaluated once per content).
Chunks(r) == ParserResult(r.file, blob[r.file]).chunks
Detected ==
    [f \in Files, kind \in BlobKinds |->
        detect_all_alerts(ParserResult(f, kind).chunks)]
Found(r) == Detected[r.file, blob[r.file]]

\* Variant of line 99 that leaves the status of a file that is not PENDING.
MarkProcessingIfPending(row) ==
    IF row.processing_status = "pending"
    THEN [row EXCEPT !.processing_status = "processing"]
    ELSE row
\* Line 99.
MarkProcessing(row) == [row EXCEPT !.processing_status = "processing"]

\* Lines 88-114: the worker takes the message, loads the file and commits
\* PROCESSING; then it downloads the bytes and parses them, which touches
\* no store shared with other workers.  download_file returns the bytes,
\* returns None (S3Error) or lets another exception of the storage client
\* through; parser.parse returns the chunks or re-raises its exception.
StartRun(w, t) ==
    /\ runs[w] = Idle
    /\ \A v \in Workers : v < w => runs[v] # Idle
    /\ started < MaxRuns
    /\ started' = started + 1
    /\ t \in tasks
    /\ tasks' = tasks \ {t}
    /\ files' = [files EXCEPT ![t.file] = MarkProcessing(@)]
    /\ LET r == [task |-> t.id, file |-> t.file, retries |-> t.retries,
                 pc |-> "alerts", failed_at |-> "none", exc |-> None,
                 alert_ids |-> {}, embeddings |-> <<>>]
           content == ParserResult(t.file, blob[t.file])
       IN \/ \E e \in DownloadErrors :
               runs' = [runs EXCEPT ![w] =
                  Some([r EXCEPT !.pc = "except", !.failed_at = "download",
                                 !.exc = Some(e)])]
          \/ /\ content.parse_error # None
             /\ runs' = [runs EXCEPT ![w] =
                  Some([r EXCEPT !.pc = "except", !.failed_at = "parse",
                                 !.exc = content.parse_error])]
          \/ /\ content.parse_error = None
             /\ runs' = [runs EXCEPT ![w] = Some(r)]
    /\ results' = [results EXCEPT ![t.id] = [state |-> "STARTED", ret |-> None]]
    /\ overlapped' = [overlapped EXCEPT ![t.file] = @ \/ Running(t.file) # {}]
    /\ UNCHANGED <<chat, last, fetched, blob, alerts, index, cache, now, next_task, next_alert>>

\* The AlertDB row of line 125: the keyword metadata= names no column of
\* AlertDB (the column is source_metadata), so no source metadata is stored.
AlertRow(id, f, alert) ==
    [id |-> id, user_id |-> FileInfo[f].user_id, file_id |-> f,
     alert_type |-> alert.alert_type, severity |-> alert.severity,
     source_metadata |-> None, value |-> Some(FloatStr(alert.value))]

\* Variant of lines 116-138 that also writes the temporal summary of a
\* tabular file, before the chunks are indexed.
SaveAlertsWithSummary(w) ==
    /\ runs[w] # Idle /\ runs[w][1].pc = "alerts"
    /\ LET r == runs[w][1]
           found == Found(r)
           rows == [i \in 1..Len(found) |->
                        AlertRow(next_alert + i - 1, r.file, found[i])]
       IN /\ alerts' = alerts \o rows
          /\ next_alert' = next_alert + Len(found)
          /\ files' = [files EXCEPT ![r.file].temporal_metadata =
                IF FileInfo[r.file].file_type \in {"excel", "csv"}
                THEN Some(extract_temporal_metadata(Chunks(r), now))
                ELSE @]
          /\ runs' = [runs EXCEPT ![w] =
                        Some([r EXCEPT !.pc = "index",
                                       !.alert_ids = {rows[i].id : i \in 1..Len(rows)}])]
    /\ UNCHANGED <<chat, last, fetched, blob, index, cache, tasks, results, now, next_task,
                   overlapped, started>>
\* Lines 116-138: detect the alerts, add one row per alert, commit.
SaveAlerts(w) ==
    /\ runs[w] # Idle /\ runs[w][1].pc = "alerts"
    /\ LET r == runs[w][1]
           found == Found(r)
           rows == [i \in 1..Len(found) |->
                        AlertRow(next_alert + i - 1, r.file, found[i])]
       IN /\ alerts' = alerts \o rows
          /\ next_alert' = next_alert + Len(found)
          /\ runs' = [runs EXCEPT ![w] =
                        Some([r EXCEPT !.pc = "index",
                                       !.alert_ids = {rows[i].id : i \in 1..Len(rows)}])]
    /\ UNCHANGED <<chat, last, fetched, files, blob, index, cache, tasks, results, now, next_task,
                   overlapped, started>>


\* Lines 140-148: index_chunks, then raise if it returned False.  The
\* endpoint of the embeddings answers or fails chunk by chunk; the search
\* index itself accepts the import.
Index(w) ==
    /\ runs[w] # Idle /\ runs[w][1].pc = "index"
    /\ LET r == runs[w][1]
       IN \E responses \in BatchAnswers(Chunks(r), IngestVectors) :
            LET res == index_chunks(index, cache, Chunks(r),
                                    FileInfo[r.file].user_id, r.file, now,
                                    responses, TRUE)
                r2 == [r EXCEPT !.embeddings = res.embeddings]
            IN /\ index' = res.index
               /\ cache' = res.cache
               /\ runs' = [runs EXCEPT ![w] =
                     IF res.success THEN Some([r2 EXCEPT !.pc = "finish"])
                     ELSE Some([r2 EXCEPT !.pc = "except", !.failed_at = "index",
                                          !.exc = Some(ErrIndex)])]
    /\ UNCHANGED <<chat, last, fetched, files, blob, alerts, tasks, results, now, next_task,
                   next_alert, overlapped, started>>

\* Lines 150-169: temporal metadata of a tabular file, COMPLETED, commit, return.
Finish(w) ==
    /\ runs[w] # Idle /\ runs[w][1].pc = "finish"
    /\ LET r == runs[w][1]
           tabular == FileInfo[r.file].file_type \in {"excel", "csv"}
       IN /\ files' = [files EXCEPT ![r.file] =
                [processing_status |-> "completed",
                 error_message |-> None,
                 temporal_metadata |->
                    IF tabular THEN Some(extract_temporal_metadata(Chunks(r), now))
                    ELSE @.temporal_metadata]]
          /\ results' = [results EXCEPT ![r.task] =
                [state |-> "SUCCESS",
                 ret |-> Some([success |-> TRUE, chunks_count |-> Len(Chunks(r))])]]
    /\ runs' = [runs EXCEPT ![w] = Idle]
    /\ UNCHANGED <<chat, last, fetched, blob, alerts, index, cache, tasks, now, next_task,
                   next_alert, overlapped, started>>

\* Variant of line 185 that looks for "timeout" only.
IsTransientTimeoutOnly(e) == Contains(Lower(e), KwTimeout)
\* Line 185.
IsTransient(e) ==
    Contains(Lower(e), KwTimeout) \/ Contains(Lower(e), KwConnection)

\* Line 77 (max_retries=3) and Task.retry: a retry is sent unless the task
\* has already been retried max_retries times, in which case exc is raised.
CanRetry(retries) == retries < MaxRetries

\* Variant of line 186 with a linear delay.
CountdownLinear(retries) == RetryBase * retries
\* Line 186.
Countdown(retries) == RetryBase ^ retries

\* Variant of line 179 without the slice.
ErrorMessageFull(e) == e
\* Line 179.
ErrorMessage(e) == Truncate(e, ErrMaxLen)

\* Lines 179 and 185 for each text that can reach the handler (evaluated
\* once per text).
Message == [e \in FailureTexts |-> ErrorMessage(e)]
Transient == [e \in FailureTexts |-> IsTransient(e)]

\* Variant of lines 173-180 that also deletes the alerts of the run.
FailureCommitRollback(db, r) ==
    [db EXCEPT !.files[r.file].processing_status = "failed",
               !.files[r.file].error_message = Some(Message[r.exc[1]]),
               !.alerts = SelectSeq(@, LAMBDA a : a.id \notin r.alert_ids)]
\* Lines 173-180: what the handler commits: the file row is FAILED with the
\* truncated text of the exception; no other row is written.
FailureCommit(db, r) ==
    [db EXCEPT !.files[r.file].processing_status = "failed",
               !.files[r.file].error_message = Some(Message[r.exc[1]])]

\* Lines 171-195: the handler marks the file FAILED, then retries or returns.
\* committed is whether the query and the commit of lines 175-180 succeed;
\* when one of them raises, line 181 catches the exception and logs it.
Handler(w, committed) ==
    /\ runs[w] # Idle /\ runs[w][1].pc = "except"
    /\ LET r == runs[w][1]
           e == r.exc[1]
           db == IF committed
                 THEN FailureCommit([files |-> files, alerts |-> alerts], r)
                 ELSE [files |-> files, alerts |-> alerts]
       IN /\ files' = db.files
          /\ alerts' = db.alerts
          /\ IF Transient[e]
             THEN IF CanRetry(r.retries)
                  THEN /\ tasks' = tasks \cup
                            {[id |-> r.task, file |-> r.file,
                              retries |-> r.retries + 1,
                              countdown |-> Countdown(r.retries)]}
                       /\ results' = [results EXCEPT ![r.task] =
                                         [state |-> "RETRY", ret |-> None]]
                  ELSE /\ tasks' = tasks
                       /\ results' = [results EXCEPT ![r.task] =
                                         [state |-> "FAILURE", ret |-> None]]
             ELSE /\ tasks' = tasks
                  /\ results' = [results EXCEPT ![r.task] =
                        [state |-> "SUCCESS",
                         ret |-> Some([success |-> FALSE, error |-> e])]]
    /\ runs' = [runs EXCEPT ![w] = Idle]
    /\ UNCHANGED <<chat, last, fetched, blob, index, cache, now, next_task, next_alert,
                   overlapped, started>>
\* The handler with the database available.
Except(w) == Handler(w, TRUE)

(***************************************************************************)
(* update_temporal_config: stores the user configuration in the file's     *)
(* temporal_metadata and sends a process_document task for the file.       *)
(***************************************************************************)
UpdateTemporalConfig(f, config) ==
    /\ next_task <= MaxTasks
    /\ LET current_metadata ==
               IF files[f].temporal_metadata = None THEN <<>>
               ELSE files[f].temporal_metadata[1]
           m1 == IF config.date_columns # None
                 THEN ("user_configured_columns" :> config.date_columns)
                      @@ current_metadata
                 ELSE current_metadata
           m2 == IF config.lead_time_pairs # None
                 THEN ("user_configured_lead_time_pairs" :> config.lead_time_pairs)
                      @@ m1
                 ELSE m1
       IN files' = [files EXCEPT ![f].temporal_metadata = Some(m2)]
    /\ tasks' = tasks \cup {[id |-> next_task, file |-> f, retries |-> 0,
                             countdown |-> 0]}
    /\ results' = (next_task :> [state |-> "PENDING", ret |-> None]) @@ results
    /\ next_task' = next_task + 1
    /\ UNCHANGED <<chat, last, fetched, blob, alerts, index, cache, runs, now, next_alert, overlapped, started>>

Next ==
    \/ \E w \in Workers : \E t \in tasks : StartRun(w, t)
    \/ \E w \in Workers : SaveAlerts(w)
    \/ \E w \in Workers : Index(w)
    \/ \E w \in Workers : Finish(w)
    \/ \E w \in Workers : Except(w)
    \/ \E f \in Files : \E config \in Configs : UpdateTemporalConfig(f, config)

Spec == Init /\ [][Next]_vars

(***************************************************************************)
(* process_document with a database that can fail while the handler        *)
(* updates the status, and with the hard time limit of the worker          *)
(* (task_time_limit, tasks/__init__.py): the pool kills the process that   *)
(* executes the task, so that neither the handler nor the finally clause   *)
(* runs, and records the failure of the task.                              *)
(***************************************************************************)
ExceptDbError(w) == Handler(w, FALSE)

TimeLimit(w) ==
    /\ runs[w] # Idle
    /\ results' = [results EXCEPT ![runs[w][1].task] =
                      [state |-> "FAILURE", ret |-> None]]
    /\ runs' = [runs EXCEPT ![w] = Idle]
    /\ UNCHANGED <<chat, last, fetched, files, blob, alerts, index, cache, tasks, now,
                   next_task, next_alert, overlapped, started>>

NextFaults ==
    \/ Next
    \/ \E w \in Workers : ExceptDbError(w)
    \/ \E w \in Workers : TimeLimit(w)

SpecFaults == Init /\ [][NextFaults]_vars

TypeOK ==
    /\ \A f \in Files :
          files[f].processing_status \in {"pending", "processing", "completed", "failed"}
    /\ \A w \in Workers : runs[w] = Idle \/ runs[w][1].file \in Files

(***************************************************************************)
(* RAGService called directly: generate_embedding while the clock         *)
(* advances; index_chunks and hybrid_search on the files of two users.     *)
(***************************************************************************)
TxtLower == <<"s","t","o","c","k">>
TxtUpper == <<"S","t","o","c","k">>
RagTexts == {TxtLower, TxtUpper}

RagChunk(content) == ExcelChunk(content, content, content, "A1")

\* Files fa and fb belong to user u1, file fc to user u2.
RagFiles == {"fa", "fb", "fc"}
RagUsers == {"u1", "u2"}
RagOwner == [f \in RagFiles |-> IF f = "fc" THEN "u2" ELSE "u1"]
RagChunks ==
    [f \in RagFiles |->
        IF f = "fa" THEN <<RagChunk(TxtLower), RagChunk(TxtUpper)>>
        ELSE <<RagChunk(TxtLower)>>]

\* What the ghost variable fetched becomes when the texts are embedded one
\* after the other at time t: a text that was fetched less than CacheTtl
\* seconds ago is not asked again; another one is asked, and recorded when
\* the endpoint answers with a vector.
RECURSIVE Fetch(_, _, _, _, _)
Fetch(fe, texts, responses, i, t) ==
    IF i > Len(texts) THEN fe
    ELSE LET text == texts[i]
             fresh == text \in DOMAIN fe /\ t < fe[text].at + CacheTtl
             answered == ~responses[i].error /\ responses[i].embedding # <<>>
         IN Fetch(IF ~fresh /\ answered
                  THEN (text :> [at |-> t, vector |-> responses[i].embedding])
                       @@ fe
                  ELSE fe,
                  texts, responses, i + 1, t)

InitRag ==
    /\ files = [f \in Files |-> [processing_status |-> "pending",
                                 error_message |-> None,
                                 temporal_metadata |-> None]]
    /\ blob = [f \in Files |-> "workbook"]
    /\ alerts = <<>>
    /\ index = <<>>
    /\ cache = <<>>
    /\ tasks = {}
    /\ results = <<>>
    /\ runs = [w \in Workers |-> Idle]
    /\ now = 0
    /\ next_task = 1
    /\ next_alert = 1
    /\ overlapped = [f \in Files |-> FALSE]
    /\ started = 0
    /\ last = None
    /\ fetched = [text \in {} |-> None]
    /\ chat = None

ingestvars == <<files, blob, alerts, tasks, results, runs, next_task,
                next_alert, overlapped, started>>

\* generate_embedding(text).
GenerateEmbedding(text, response) ==
    LET g == generate_embedding(cache, text, now, response)
    IN /\ cache' = g.cache
       /\ last' = Some([op |-> "generate_embedding", text |-> text,
                        response |-> response,
                        ret |-> g.ret, calls |-> g.calls])
       /\ fetched' = Fetch(fetched, <<text>>, <<response>>, 1, now)
       /\ UNCHANGED <<index, now>>
       /\ UNCHANGED <<ingestvars, chat>>

\* The lists of texts given to generate_embeddings_batch: every list of at
\* most MaxBatch texts, and one list that is one text longer than a
\* sub-batch.
LongBatch == [i \in 1..(batch_size + 1) |-> IF i % 2 = 1 THEN TxtLower ELSE TxtUpper]
BatchTexts ==
    UNION {[1..n -> RagTexts] : n \in 0..MaxBatch} \cup {LongBatch}
\* What the endpoint answers to each position of a list; in the long list it
\* fails up to the last position of the first sub-batch.
TextAnswers(texts, vectors) ==
    LET n == Len(texts)
        free == IF n > MaxBatch THEN {i \in 1..n : i >= batch_size} ELSE 1..n
        failed == [error |-> TRUE, embedding |-> <<>>]
    IN {[i \in 1..n |-> IF i \in free THEN rs[i] ELSE failed] :
           rs \in {qs \in [free -> Responses(vectors)] :
                      \A i \in free : qs[i] \in Answers(texts[i], vectors)}}

\* generate_embeddings_batch(texts).
GenerateEmbeddingsBatch(texts, responses) ==
    LET b == generate_embeddings_batch(cache, texts, now, responses)
    IN /\ cache' = b.cache
       /\ last' = Some([op |-> "generate_embeddings_batch", texts |-> texts,
                        responses |-> responses,
                        ret |-> b.embeddings, calls |-> b.calls])
       /\ fetched' = Fetch(fetched, texts, responses, 1, now)
       /\ UNCHANGED <<index, now>>
       /\ UNCHANGED <<ingestvars, chat>>

\* index_chunks(chunks of f, owner of f, f), for a file that has no
\* document in the index.
IndexChunks(f, responses, import_ok) ==
    /\ \A i \in 1..Len(index) : index[i].file_id # f
    /\ LET res == index_chunks(index, cache, RagChunks[f], RagOwner[f], f, now,
                               responses, import_ok)
           texts == [i \in 1..Len(RagChunks[f]) |-> RagChunks[f][i].content]
       IN /\ index' = res.index
          /\ cache' = res.cache
          /\ last' = Some([op |-> "index_chunks", file_id |-> f,
                           embeddings |-> res.embeddings,
                           ret |-> res.success, calls |-> res.calls])
          /\ fetched' = Fetch(fetched, texts, responses, 1, now)
    /\ UNCHANGED now
    /\ UNCHANGED <<ingestvars, chat>>

\* hybrid_search(query, user_id, top_k, file_id).
HybridSearch(query, user_id, top_k, file_id, response, ranking) ==
    LET h == hybrid_search(index, cache, query, user_id, top_k, file_id, now,
                           response, ranking)
    IN /\ cache' = h.cache
       /\ last' = Some([op |-> "hybrid_search", query |-> query,
                        user_id |-> user_id, top_k |-> top_k,
                        file_id |-> file_id, sent |-> h.sent, hits |-> h.hits,
                        ret |-> h.ret, calls |-> h.calls])
       /\ fetched' = Fetch(fetched, <<query>>, <<response>>, 1, now)
       /\ UNCHANGED <<index, now>>
       /\ UNCHANGED <<ingestvars, chat>>

\* Time passes, half the lifetime of a cache entry at a time.
TickStep == CacheTtl \div 2
Tick ==
    /\ now + TickStep <= MaxClock
    /\ now' = now + TickStep
    /\ UNCHANGED <<index, cache, last, fetched>>
    /\ UNCHANGED <<ingestvars, chat>>

\* The embedding cache over time.
NextCache ==
    \/ \E text \in RagTexts : \E response \in Answers(text, Vectors) :
          GenerateEmbedding(text, response)
    \/ \E texts \in BatchTexts : \E responses \in TextAnswers(texts, IngestVectors) :
          GenerateEmbeddingsBatch(texts, responses)
    \/ Tick

SpecCache == InitRag /\ [][NextCache]_vars

\* Indexing and searching the files of the two users.
NextSearch ==
    \/ \E f \in RagFiles :
          \E responses \in BatchAnswers(RagChunks[f], IngestVectors) :
             \E import_ok \in BOOLEAN : IndexChunks(f, responses, import_ok)
    \/ \E query \in RagTexts : \E user_id \in RagUsers : \E top_k \in 1..MaxTopK :
          \E file_id \in {None} \cup {Some(f) : f \in RagFiles} :
             \E response \in Answers(query, IngestVectors) :
                \E ranking \in {"asc", "desc"} :
                   HybridSearch(query, user_id, top_k, file_id, response, ranking)

SpecSearch == InitRag /\ [][NextSearch]_vars

(***************************************************************************)
(* The life of the indexed documents: the files of the two users are       *)
(* indexed and searched while time passes and while their owners delete    *)
(* them (delete_file, api/files.py).  The object store is available.       *)
(***************************************************************************)
MaxLifetimes == 2
DocumentLifetime == DocTtlHours * SecondsPerHour

InitLive ==
    /\ files = [f \in RagFiles |-> [processing_status |-> "pending",
                                    error_message |-> None,
                                    temporal_metadata |-> None]]
    /\ blob = [f \in RagFiles |-> "workbook"]
    /\ alerts = <<>>
    /\ index = <<>>
    /\ cache = <<>>
    /\ tasks = {}
    /\ results = <<>>
    /\ runs = [w \in Workers |-> Idle]
    /\ now = 0
    /\ next_task = 1
    /\ next_alert = 1
    /\ overlapped = [f \in Files |-> FALSE]
    /\ started = 0
    /\ last = None
    /\ fetched = [text \in {} |-> None]
    /\ chat = None

\* delete_file(file_id) called by user_id: the row is looked up by id and
\* owner; the object and the row are deleted.
DeleteFile(f, user_id) ==
    /\ f \in DOMAIN files
    /\ RagOwner[f] = user_id
    /\ blob' = [g \in DOMAIN blob \ {f} |-> blob[g]]
    /\ files' = [g \in DOMAIN files \ {f} |-> files[g]]
    /\ UNCHANGED <<chat, last, fetched, alerts, index, cache, tasks, results, runs,
                   now, next_task, next_alert, overlapped, started>>

\* The lifetime of a document passes.
Lifetime ==
    /\ now + DocumentLifetime <= MaxLifetimes * DocumentLifetime
    /\ now' = now + DocumentLifetime
    /\ UNCHANGED <<index, cache, last, fetched>>
    /\ UNCHANGED <<ingestvars, chat>>

\* A file is indexed by process_document, which finds its row first.
NextLive ==
    \/ \E f \in {"fa", "fc"} :
          \E responses \in BatchAnswers(RagChunks[f], IngestVectors) :
             f \in DOMAIN files /\ IndexChunks(f, responses, TRUE)
    \/ \E user_id \in RagUsers : \E file_id \in {None, Some("fa")} :
          \E response \in Answers(TxtLower, IngestVectors) :
             HybridSearch(TxtLower, user_id, MaxTopK, file_id, response, "asc")
    \/ \E f \in RagFiles : \E user_id \in RagUsers : DeleteFile(f, user_id)
    \/ Lifetime

SpecLive == InitLive /\ [][NextLive]_vars

(***************************************************************************)
(* The chat turn: send_message and generate_stream (api/messages.py),      *)
(* LLMService.stream_response and the two searches it starts.  A text that *)
(* the code only builds by concatenation is a sequence of fragments, a     *)
(* literal of the code being one fragment.                                 *)
(***************************************************************************)
MaxTurns == 1
MaxLines == 2

\* top_k of the two searches of a chat turn (llm_service.py).
KbTopK == 3
DocsTopK == 5

RECURSIVE Join(_, _)
Join(sep, parts) ==
    IF parts = <<>> THEN <<>>
    ELSE IF Len(parts) = 1 THEN parts[1]
    ELSE parts[1] \o sep \o Join(sep, Tail(parts))

\* The parameters that the two search methods declare besides self, and
\* the keywords with which stream_response calls them.
SearchKnowledgeParameters == {"query", "top_k", "category", "tags", "query_embedding"}
HybridSearchParameters == {"query", "user_id", "top_k", "file_id"}
SearchKbKeywords == {"query", "top_k", "query_embedding"}
SearchDocsKeywords == {"query", "user_id", "top_k", "query_embedding"}

\* str() of the TypeError that Python raises for a keyword that the called
\* function does not declare.
UnexpectedKeyword(name, kw) ==
    <<name, "() got an unexpected keyword argument '", kw, "'">>

\* KnowledgeService.search_knowledge(query, top_k, query_embedding=...)
\* on the collection kb: the results, the vector of the search request (if
\* a request was sent), the cache afterwards and the number of calls made
\* to the embedding endpoint.  search_ok is whether multi_search.perform
\* returns (TRUE) or raises (FALSE).
search_knowledge(kb, c, query, top_k, query_embedding, t, response, search_ok, ranking) ==
    LET g == IF query_embedding = None
             THEN generate_embedding(c, query, t, response)
             ELSE [ret |-> query_embedding, cache |-> c, calls |-> 0]
    IN IF g.ret = None \/ g.ret[1] = <<>>
       THEN [ret |-> <<>>, sent |-> None, cache |-> g.cache, calls |-> g.calls]
       ELSE IF ~search_ok
       THEN [ret |-> <<>>, sent |-> g.ret, cache |-> g.cache, calls |-> g.calls]
       ELSE LET ranked == IF ranking = "desc" THEN Reverse(kb) ELSE kb
                n == IF Len(ranked) < top_k THEN Len(ranked) ELSE top_k
            IN [ret |-> [i \in 1..n |->
                           [content |-> ranked[i].content,
                            title |-> ranked[i].title,
                            category |-> ranked[i].category]],
                sent |-> g.ret, cache |-> g.cache, calls |-> g.calls]

RECURSIVE KnowledgeParts(_, _)
KnowledgeParts(search_results, idx) ==
    IF idx > Len(search_results) THEN <<>>
    ELSE << <<"\n[Connaissance ">> \o NatStr(idx) \o <<": ">>
            \o search_results[idx].title \o <<" (Catégorie: ">>
            \o search_results[idx].category \o <<")]\n">>
            \o search_results[idx].content \o <<"\n">> >>
         \o KnowledgeParts(search_results, idx + 1)

build_knowledge_context(search_results) ==
    IF search_results = <<>> THEN <<>>
    ELSE Join(<<"\n">>,
              << <<"Voici des connaissances pertinentes de la base de connaissances:\n">> >>
              \o KnowledgeParts(search_results, 1))

\* metadata.get(key) inside an f-string; the values are texts.
MetaGet(metadata, key, default) ==
    IF key \in DOMAIN metadata THEN <<metadata[key]>> ELSE <<default>>

SourceCitation(idx, metadata) ==
    LET file_type == MetaGet(metadata, "file_type", "")
        filename == MetaGet(metadata, "filename", "unknown")
        head == <<"[Source ">> \o NatStr(idx) \o <<": ">> \o filename
    IN IF file_type = <<"excel">>
       THEN head \o <<", feuille '">> \o MetaGet(metadata, "sheet_name", "None")
                 \o <<"', cellule ">> \o MetaGet(metadata, "cell_ref", "None")
                 \o <<"]">>
       ELSE IF file_type = <<"pdf">>
       THEN head \o <<", page ">> \o MetaGet(metadata, "page", "None") \o <<"]">>
       ELSE IF file_type = <<"word">>
       THEN head \o <<", paragraphe ">>
                 \o MetaGet(metadata, "paragraph_index", "None") \o <<"]">>
       ELSE IF file_type = <<"powerpoint">>
       THEN head \o <<", slide ">>
                 \o MetaGet(metadata, "slide_number", "None") \o <<"]">>
       ELSE IF file_type = <<"csv">>
       THEN head \o <<", ligne ">>
                 \o MetaGet(metadata, "row_number", "None") \o <<"]">>
       ELSE head \o <<"]">>

RECURSIVE RagParts(_, _)
RagParts(search_results, idx) ==
    IF idx > Len(search_results) THEN <<>>
    ELSE << <<"\n">> \o SourceCitation(idx, search_results[idx].metadata)
            \o <<"\nContenu: ">> \o search_results[idx].content \o <<"\n">> >>
         \o RagParts(search_results, idx + 1)

\* RAGService.build_rag_context.
NothingFoundInDocuments ==
    <<"Aucune information pertinente n'a été trouvée dans vos documents.">>
build_rag_context(search_results) ==
    IF search_results = <<>> THEN NothingFoundInDocuments
    ELSE Join(<<"\n">>,
              << <<"Voici les informations pertinentes de vos documents:\n">> >>
              \o RagParts(search_results, 1))

\* Lines 123-141 of stream_response: the context built from the results of
\* the two searches; conv_files is the set of files of the conversation.
NothingFound ==
    <<"Aucune information pertinente n'a été trouvée dans vos documents ou dans la base de connaissances sur ce sujet.">>
BuildContext(knowledge_results, search_results, conv_files) ==
    IF knowledge_results # <<>> \/ search_results # <<>>
    THEN Join(<<"\n\n">>,
              (IF knowledge_results # <<>>
               THEN <<build_knowledge_context(knowledge_results)>> ELSE <<>>)
              \o (IF search_results # <<>>
                  THEN <<build_rag_context(search_results)>> ELSE <<>>))
    ELSE IF conv_files # {} THEN NothingFound
    ELSE <<>>

\* LLMService._build_messages: the system message, followed by the history.
\* The date of the system message is left out.
build_messages(conversation_history, rag_context) ==
    << [role |-> "system",
        content |->
            <<"Tu es un assistant IA spécialisé en Supply Chain. ">>
            \o (IF rag_context # <<>>
                THEN <<"RÈGLES IMPORTANTES:\n">> \o rag_context \o <<"\n">>
                ELSE <<"Réponds toujours en français et sois précis et factuel. ">>)] >>
    \o conversation_history

\* The chunks that stream_response yields.
TokenChunk(content) == [content |-> content, is_final |-> FALSE]
FinalChunk == [content |-> <<>>, is_final |-> TRUE]
ErrorPrefix == <<"\n\n⚠ Erreur lors de la génération de la réponse: ">>
\* Variant of lines 169-172 whose chunk is not marked final.
ErrorChunkNotFinal(e) == [content |-> ErrorPrefix \o e, is_final |-> FALSE]
\* Lines 169-172.
ErrorChunk(e) == [content |-> ErrorPrefix \o e, is_final |-> TRUE]
\* Line 243: the exception that _stream_ollama_response raises.
OllamaError(e) == <<"Erreur de connexion à Ollama: ">> \o e

\* The conversation of user u1, with or without an uploaded file, and the
\* knowledge base, empty or with two entries.
ChatUser == "u1"
ChatFiles == {{}, {"fa"}}
KnowledgeDocs ==
    << [title |-> <<"Stock de sécurité">>, category |-> <<"inventory">>,
        content |-> <<"Le stock de sécurité couvre les aléas.">>],
       [title |-> <<"Incoterms">>, category |-> <<"transport">>,
        content |-> <<"FOB: le vendeur charge la marchandise.">>] >>
KnowledgeBases == {<<>>, KnowledgeDocs}
ChatQueries == {TxtLower}
\* The contents of the lines that the generation endpoint streams (the empty
\* one is a line without content) and the texts of its failures.
GenContents == {<<>>, <<"O","k">>, <<"!">>}
GenErrors == {ErrConnRefused}

NoTask == [state |-> "idle", sent |-> None, ret |-> <<>>, exc |-> None]

\* The fields of a chat turn before stream_response has run.
NewTurn ==
    [user_query |-> <<>>, history |-> <<>>, query_embedding |-> None,
     embed_calls |-> 0, kb_task |-> NoTask, docs_task |-> NoTask,
     knowledge_results |-> <<>>, search_results |-> <<>>,
     rag_context |-> <<>>, prompt |-> None, failed_at |-> "none",
     exc |-> None, read |-> 0, sent |-> <<>>, accumulated |-> <<>>,
     writes |-> 0]

InitChat ==
    /\ files = [f \in Files |-> [processing_status |-> "pending",
                                 error_message |-> None,
                                 temporal_metadata |-> None]]
    /\ blob = [f \in Files |-> "workbook"]
    /\ alerts = <<>>
    /\ \E conv_files \in ChatFiles :
          /\ index = IF conv_files = {} THEN <<>>
                     ELSE Documents(RagChunks["fa"],
                                    <<Some(<<1, 2>>), Some(<<1, 2>>)>>, 0,
                                    ChatUser, "fa", DocTtlHours * SecondsPerHour)
          /\ \E kb \in KnowledgeBases :
                chat = [files |-> conv_files, kb |-> kb, messages |-> <<>>,
                        turn |-> 0, pc |-> "idle"] @@ NewTurn
    /\ cache = <<>>
    /\ tasks = {}
    /\ results = <<>>
    /\ runs = [w \in Workers |-> Idle]
    /\ now = 0
    /\ next_task = 1
    /\ next_alert = 1
    /\ overlapped = [f \in Files |-> FALSE]
    /\ started = 0
    /\ last = None
    /\ fetched = [text \in {} |-> None]

storevars == <<index, now, last, fetched>>

\* send_message, lines 55-86, and stream_response, lines 58-72: the user's
\* message is saved, the history and the files of the conversation are read.
SendMessage(content) ==
    /\ chat.pc \in {"idle", "done", "cancelled"}
    /\ chat.turn < MaxTurns
    /\ LET messages == Append(chat.messages, [role |-> "user", content |-> content])
       IN chat' = [files |-> chat.files, kb |-> chat.kb, messages |-> messages,
                   turn |-> chat.turn + 1, pc |-> "embed"]
                  @@ [NewTurn EXCEPT !.user_query = content,
                                     !.history = messages]
    /\ UNCHANGED <<cache, storevars, ingestvars>>

\* Variant of lines 85 and 120-121 in which a failed query embedding is an
\* error of the turn.
AfterEmbeddingStrict(query_embedding) ==
    IF query_embedding # None /\ query_embedding[1] # <<>> THEN "gather"
    ELSE "except"
\* Lines 85 and 120-121: "if query_embedding:".
AfterEmbedding(query_embedding) ==
    IF query_embedding # None /\ query_embedding[1] # <<>> THEN "gather"
    ELSE "context"

\* Lines 82-85: the query embedding.
EmbedQuery(response) ==
    /\ chat.pc = "embed"
    /\ LET g == generate_embedding(cache, chat.user_query, now, response)
       IN /\ cache' = g.cache
          /\ chat' = [chat EXCEPT !.query_embedding = g.ret,
                                  !.embed_calls = @ + g.calls,
                                  !.pc = AfterEmbedding(g.ret),
                                  !.failed_at = IF AfterEmbedding(g.ret) = "except"
                                                THEN "embedding" ELSE @,
                                  !.exc = IF AfterEmbedding(g.ret) = "except"
                                          THEN Some(<<"No query embedding">>)
                                          ELSE @]
    /\ UNCHANGED <<storevars, ingestvars>>

\* Lines 91-114: gather starts search_kb and search_docs one after the other;
\* search_kb hands search_knowledge to a thread; search_docs hands
\* hybrid_search to a thread when the conversation has files and returns []
\* otherwise.
StartSearches ==
    /\ chat.pc = "gather"
    /\ chat.kb_task.state = "idle"
    /\ chat' = [chat EXCEPT
          !.kb_task = [NoTask EXCEPT !.state = "running"],
          !.docs_task = IF chat.files # {}
                        THEN [NoTask EXCEPT !.state = "running"]
                        ELSE [NoTask EXCEPT !.state = "done"]]
    /\ UNCHANGED <<cache, storevars, ingestvars>>

\* The thread of search_kb: search_knowledge(query, top_k=3,
\* query_embedding).
KbThread(search_ok, ranking) ==
    /\ chat.kb_task.state = "running"
    /\ LET unexpected == SearchKbKeywords \ SearchKnowledgeParameters
           k == search_knowledge(chat.kb, cache, chat.user_query, KbTopK,
                                 chat.query_embedding, now,
                                 [error |-> TRUE, embedding |-> <<>>],
                                 search_ok, ranking)
       IN IF unexpected # {}
          THEN /\ chat' = [chat EXCEPT !.kb_task =
                     [NoTask EXCEPT !.state = "raised",
                        !.exc = Some(UnexpectedKeyword(
                            "KnowledgeService.search_knowledge",
                            CHOOSE kw \in unexpected : TRUE))]]
               /\ cache' = cache
          ELSE /\ chat' = [chat EXCEPT
                     !.kb_task = [state |-> "done", sent |-> k.sent,
                                  ret |-> k.ret, exc |-> None],
                     !.embed_calls = @ + k.calls]
               /\ cache' = k.cache
    /\ UNCHANGED <<storevars, ingestvars>>

\* The thread of search_docs: hybrid_search(query, user_id, top_k=5,
\* query_embedding).
DocsThread(response, ranking) ==
    /\ chat.docs_task.state = "running"
    /\ LET unexpected == SearchDocsKeywords \ HybridSearchParameters
           h == hybrid_search(index, cache, chat.user_query, ChatUser, DocsTopK,
                              None, now, response, ranking)
       IN IF unexpected # {}
          THEN /\ chat' = [chat EXCEPT !.docs_task =
                     [NoTask EXCEPT !.state = "raised",
                        !.exc = Some(UnexpectedKeyword(
                            "RAGService.hybrid_search",
                            CHOOSE kw \in unexpected : TRUE))]]
               /\ cache' = cache
          ELSE /\ chat' = [chat EXCEPT
                     !.docs_task = [state |-> "done",
                                    sent |-> IF h.sent = None THEN None
                                             ELSE Some(h.sent[1].vector_query.vector),
                                    ret |-> h.ret, exc |-> None],
                     !.embed_calls = @ + h.calls]
               /\ cache' = h.cache
    /\ UNCHANGED <<storevars, ingestvars>>

\* Lines 111-114: gather returns the two results when both searches are
\* done, and raises the exception of a search as soon as one has raised.
Gathered ==
    /\ chat.pc = "gather"
    /\ LET raised == {t \in {chat.kb_task, chat.docs_task} : t.state = "raised"}
       IN \/ /\ raised # {}
             /\ \E t \in raised :
                   chat' = [chat EXCEPT !.pc = "except", !.failed_at = "search",
                                        !.exc = t.exc]
          \/ /\ chat.kb_task.state = "done"
             /\ chat.docs_task.state = "done"
             /\ chat' = [chat EXCEPT !.pc = "context",
                                     !.knowledge_results = chat.kb_task.ret,
                                     !.search_results = chat.docs_task.ret]
    /\ UNCHANGED <<cache, storevars, ingestvars>>

\* Lines 123-146: the context and the messages for the generation endpoint.
BuildPrompt ==
    /\ chat.pc = "context"
    /\ LET rag_context == BuildContext(chat.knowledge_results,
                                       chat.search_results, chat.files)
       IN chat' = [chat EXCEPT
              !.rag_context = rag_context,
              !.prompt = Some(build_messages(chat.history, rag_context)),
              !.pc = "generate"]
    /\ UNCHANGED <<cache, storevars, ingestvars>>

\* _stream_ollama_response, lines 204-212: the request to the generation
\* endpoint; a failure of the request or an HTTP error status is raised as
\* the exception of line 243.
GenRequest(ok, e) ==
    /\ chat.pc = "generate"
    /\ chat' = IF ok THEN [chat EXCEPT !.pc = "stream"]
               ELSE [chat EXCEPT !.pc = "except", !.failed_at = "generation",
                                 !.exc = Some(OllamaError(e))]
    /\ UNCHANGED <<cache, storevars, ingestvars>>

\* Variant of line 104 that accumulates the content of the token chunks
\* only.
AccumulateTokens(accumulated_content, chunk) ==
    IF chunk.is_final THEN accumulated_content
    ELSE accumulated_content \o chunk.content
\* Line 104 of generate_stream.
Accumulate(accumulated_content, chunk) == accumulated_content \o chunk.content

\* generate_stream, lines 98-118, for a chunk that stream_response yields:
\* the content is accumulated and the event is sent to the client.
Forward(c, chunk) ==
    [c EXCEPT !.accumulated = Accumulate(@, chunk),
              !.sent = Append(@, chunk)]

\* Lines 215-232: the next line of the stream; a line with content is
\* yielded as a chunk.
GenLine(content) ==
    /\ chat.pc = "stream"
    /\ chat.read < MaxLines
    /\ chat' = IF content # <<>>
               THEN [Forward(chat, TokenChunk(content)) EXCEPT !.read = @ + 1]
               ELSE [chat EXCEPT !.read = @ + 1]
    /\ UNCHANGED <<cache, storevars, ingestvars>>

\* Lines 221-222 and 160-164: the line that says done, or the end of the
\* stream; stream_response yields the final chunk.
GenDone ==
    /\ chat.pc = "stream"
    /\ chat' = [Forward(chat, FinalChunk) EXCEPT !.pc = "save"]
    /\ UNCHANGED <<cache, storevars, ingestvars>>

\* Lines 241-243: reading the stream fails.
GenFail(e) ==
    /\ chat.pc = "stream"
    /\ chat' = [chat EXCEPT !.pc = "except", !.failed_at = "generation",
                            !.exc = Some(OllamaError(e))]
    /\ UNCHANGED <<cache, storevars, ingestvars>>

\* Lines 166-172: the handler of stream_response yields the error chunk.
HandleError ==
    /\ chat.pc = "except"
    /\ LET chunk == ErrorChunk(chat.exc[1])
       IN chat' = [Forward(chat, chunk) EXCEPT
                      !.pc = IF chunk.is_final THEN "save" ELSE "done"]
    /\ UNCHANGED <<cache, storevars, ingestvars>>

\* generate_stream, lines 121-129: after the final chunk was sent, the
\* assistant message is saved.
SaveMessage ==
    /\ chat.pc = "save"
    /\ chat' = [chat EXCEPT
          !.messages = Append(@, [role |-> "assistant",
                                  content |-> chat.accumulated]),
          !.writes = @ + 1,
          !.pc = "done"]
    /\ UNCHANGED <<cache, storevars, ingestvars>>

\* The client goes away: the task that runs generate_stream is cancelled
\* and the generators are closed where they are suspended; neither handler
\* ("except Exception") catches that.
Cancel ==
    /\ chat.pc \in {"embed", "gather", "context", "generate", "stream",
                    "except", "save"}
    /\ chat' = [chat EXCEPT !.pc = "cancelled"]
    /\ UNCHANGED <<cache, storevars, ingestvars>>

NextChat ==
    \/ \E content \in ChatQueries : SendMessage(content)
    \/ \E response \in Answers(chat.user_query, IngestVectors) : EmbedQuery(response)
    \/ StartSearches
    \/ \E search_ok \in BOOLEAN : \E ranking \in {"asc", "desc"} :
          KbThread(search_ok, ranking)
    \/ \E response \in Answers(chat.user_query, IngestVectors) :
          \E ranking \in {"asc", "desc"} : DocsThread(response, ranking)
    \/ Gathered
    \/ BuildPrompt
    \/ \E ok \in BOOLEAN : \E e \in GenErrors : GenRequest(ok, e)
    \/ \E content \in GenContents : GenLine(content)
    \/ GenDone
    \/ \E e \in GenErrors : GenFail(e)
    \/ HandleError
    \/ SaveMessage
    \/ Cancel

SpecChat == InitChat /\ [][NextChat]_vars

(***************************************************************************)
(* Two send_message requests on one conversation.  Each request has its    *)
(* own database session; the messages of the conversation are ordered by   *)
(* created_at, which is the order of their insertion.  The database is     *)
(* available throughout, so the commits of send_message succeed.           *)
(***************************************************************************)
Requests == {"r1", "r2"}

\* The state of a request before send_message has saved anything.
NewRequest ==
    [pc |-> "idle", history |-> <<>>, user_query |-> <<>>, read |-> 0,
     sent |-> <<>>, accumulated |-> <<>>, writes |-> 0]

InitTurns ==
    /\ files = [f \in Files |-> [processing_status |-> "pending",
                                 error_message |-> None,
                                 temporal_metadata |-> None]]
    /\ blob = [f \in Files |-> "workbook"]
    /\ alerts = <<>>
    /\ index = <<>>
    /\ chat = [messages |-> <<>>, requests |-> [r \in Requests |-> NewRequest]]
    /\ cache = <<>>
    /\ tasks = {}
    /\ results = <<>>
    /\ runs = [w \in Workers |-> Idle]
    /\ now = 0
    /\ next_task = 1
    /\ next_alert = 1
    /\ overlapped = [f \in Files |-> FALSE]
    /\ started = 0
    /\ last = None
    /\ fetched = [text \in {} |-> None]

\* send_message, lines 71-78: the user's message is added and committed.
CommitUserMessage(r, content) ==
    /\ chat.requests[r].pc = "idle"
    /\ chat' = [chat EXCEPT
          !.messages = Append(@, [role |-> "user", content |-> content]),
          !.requests[r].pc = "history"]
    /\ UNCHANGED <<cache, storevars, ingestvars>>

\* send_message, lines 80-86: the messages of the conversation, as they are
\* when the query runs.
ReadHistory(r) ==
    /\ chat.requests[r].pc = "history"
    /\ chat' = [chat EXCEPT !.requests[r].history = chat.messages,
                            !.requests[r].pc = "start"]
    /\ UNCHANGED <<cache, storevars, ingestvars>>

\* stream_response, lines 58-65: the last message of the history must be a
\* user message; otherwise the generator returns without a chunk, and
\* generate_stream ends after it.
LastMessage(r) ==
    /\ chat.requests[r].pc = "start"
    /\ LET conversation_history == chat.requests[r].history
           last_message == IF conversation_history # <<>>
                           THEN Some(conversation_history[Len(conversation_history)])
                           ELSE None
       IN chat' = IF last_message = None \/ last_message[1].role # "user"
                  THEN [chat EXCEPT !.requests[r].pc = "done"]
                  ELSE [chat EXCEPT
                           !.requests[r].user_query = last_message[1].content,
                           !.requests[r].pc = "respond"]
    /\ UNCHANGED <<cache, storevars, ingestvars>>

\* stream_response, lines 67-157, and _stream_ollama_response, lines
\* 204-212: the searches, the prompt and the request to the generation
\* endpoint either succeed or raise.
Respond(r, ok, e) ==
    /\ chat.requests[r].pc = "respond"
    /\ chat' = [chat EXCEPT !.requests[r].pc = IF ok THEN "stream" ELSE "except"]
    /\ UNCHANGED <<cache, storevars, ingestvars>>

\* Lines 215-232 of _stream_ollama_response: a line of the stream.
StreamLine(r, content) ==
    /\ chat.requests[r].pc = "stream"
    /\ chat.requests[r].read < MaxLines
    /\ chat' = [chat EXCEPT !.requests[r] =
          IF content # <<>>
          THEN [Forward(@, TokenChunk(content)) EXCEPT !.read = @ + 1]
          ELSE [@ EXCEPT !.read = @ + 1]]
    /\ UNCHANGED <<cache, storevars, ingestvars>>

\* Lines 160-164 of stream_response: the final chunk.
StreamDone(r) ==
    /\ chat.requests[r].pc = "stream"
    /\ chat' = [chat EXCEPT !.requests[r] =
          [Forward(@, FinalChunk) EXCEPT !.pc = "save"]]
    /\ UNCHANGED <<cache, storevars, ingestvars>>

\* Lines 241-243 of _stream_ollama_response: reading the stream fails.
StreamFail(r) ==
    /\ chat.requests[r].pc = "stream"
    /\ chat' = [chat EXCEPT !.requests[r].pc = "except"]
    /\ UNCHANGED <<cache, storevars, ingestvars>>

\* Lines 166-172 of stream_response: the handler yields the error chunk.
YieldError(r, e) ==
    /\ chat.requests[r].pc = "except"
    /\ chat' = [chat EXCEPT !.requests[r] =
          [Forward(@, ErrorChunk(OllamaError(e))) EXCEPT !.pc = "save"]]
    /\ UNCHANGED <<cache, storevars, ingestvars>>

\* generate_stream, lines 120-129: after a final chunk was sent, the
\* assistant message is added and committed.
CommitAssistantMessage(r) ==
    /\ chat.requests[r].pc = "save"
    /\ chat' = [chat EXCEPT
          !.messages = Append(@, [role |-> "assistant",
                                  content |-> chat.requests[r].accumulated]),
          !.requests[r].writes = @ + 1,
          !.requests[r].pc = "done"]
    /\ UNCHANGED <<cache, storevars, ingestvars>>

\* The client of a request goes away and its generators are closed.
Disconnect(r) ==
    /\ chat.requests[r].pc \in {"start", "respond", "stream", "except", "save"}
    /\ chat' = [chat EXCEPT !.requests[r].pc = "cancelled"]
    /\ UNCHANGED <<cache, storevars, ingestvars>>

NextTurns ==
    \/ \E r \in Requests : \E content \in ChatQueries : CommitUserMessage(r, content)
    \/ \E r \in Requests : ReadHistory(r)
    \/ \E r \in Requests : LastMessage(r)
    \/ \E r \in Requests : \E ok \in BOOLEAN : \E e \in GenErrors : Respond(r, ok, e)
    \/ \E r \in Requests : \E content \in GenContents : StreamLine(r, content)
    \/ \E r \in Requests : StreamDone(r)
    \/ \E r \in Requests : StreamFail(r)
    \/ \E r \in Requests : \E e \in GenErrors : YieldError(r, e)
    \/ \E r \in Requests : CommitAssistantMessage(r)
    \/ \E r \in Requests : Disconnect(r)

SpecTurns == InitTurns /\ [][NextTurns]_vars

(***************************************************************************)
(* SupplyChainAlertDetector called directly on one chunk.                   *)
(***************************************************************************)
\* Column headers and cell values of Excel chunks.
DetectHeaders ==
    {<<"Q","u","a","n","t","i","t","y">>,
     <<"Q","u","a","n","t","i","t","é">>,
     <<"Q","t","é">>,
     <<"S","t","o","c","k"," ","Q","u","a","n","t","i","t","y">>,
     <<"S","t","o","c","k">>,
     <<"P","r","i","x">>}
DetectValues ==
    {<<"-","1","0">>,
     <<"-","5","0",",","5">>,
     <<"1","5","0">>,
     <<"N","/","A">>}
\* Contents of CSV, text and PDF chunks.
DetectContents ==
    {<<"S","t","o","c","k",":"," ","-","5">>,
     <<"S","t","o","c","k"," ","q","t","y",":"," ","-","5"," ","-","7">>,
     <<"S","t","o","c","k",":"," ","5">>,
     <<"P","r","i","x",":"," ","-","5">>,
     <<"L","e","a","d"," ","t","i","m","e",":"," ","1","2","0"," ","d","a","y","s">>,
     <<"D","é","l","a","i",":"," ","0",".","5"," ","j","o","u","r","s">>,
     <<"L","e","a","d"," ","t","i","m","e",":"," ","4","5",","," ","1",".","5">>,
     <<"L","E","A","D"," ","T","I","M","E"," ","9","5"," ","s","t","o","c","k"," ","-","3">>}

\* The chunks given to the detector: the cells of a sheet, "header: value",
\* and the rows, paragraphs and pages of the other formats.
DetectChunks ==
    {ExcelChunk(header \o <<":", " ">> \o value, header, value, "B2") :
        <<header, value>> \in DetectHeaders \X DetectValues}
    \cup {[content |-> content, file_type |-> file_type,
           metadata |-> [file_type |-> file_type]] :
            <<content, file_type>> \in DetectContents \X {"csv", "text", "pdf"}}

\* The detectors: the thresholds of __init__, and thresholds set afterwards.
Detectors ==
    {alert_detector, [max_lead_time_days |-> 30, min_lead_time_days |-> 2]}

DetectNegativeStock(chunk) ==
    /\ last' = Some([op |-> "detect_negative_stock", chunk |-> chunk,
                     ret |-> detect_negative_stock(chunk)])
    /\ UNCHANGED <<index, cache, now, fetched, ingestvars, chat>>

DetectNegativeQuantity(chunk) ==
    /\ last' = Some([op |-> "detect_negative_quantity", chunk |-> chunk,
                     ret |-> detect_negative_quantity(chunk)])
    /\ UNCHANGED <<index, cache, now, fetched, ingestvars, chat>>

DetectLeadTimeOutlier(self, chunk) ==
    /\ last' = Some([op |-> "detect_lead_time_outlier", self |-> self,
                     chunk |-> chunk,
                     ret |-> detect_lead_time_outlier_of(self, chunk)])
    /\ UNCHANGED <<index, cache, now, fetched, ingestvars, chat>>

DetectAllAlerts(self, chunk) ==
    /\ last' = Some([op |-> "detect_all_alerts", self |-> self,
                     chunk |-> chunk,
                     ret |-> detect_all_alerts_of(self, <<chunk>>)])
    /\ UNCHANGED <<index, cache, now, fetched, ingestvars, chat>>

NextDetect ==
    \/ \E chunk \in DetectChunks : DetectNegativeStock(chunk)
    \/ \E chunk \in DetectChunks : DetectNegativeQuantity(chunk)
    \/ \E self \in Detectors : \E chunk \in DetectChunks :
          DetectLeadTimeOutlier(self, chunk)
    \/ \E self \in Detectors : \E chunk \in DetectChunks :
          DetectAllAlerts(self, chunk)

SpecDetect == InitRag /\ [][NextDetect]_vars

(***************************************************************************)
(* The document parsers (services/document_parser.py) and                  *)
(* TemporalService.detect_temporal_columns, called directly.  A cell of a  *)
(* workbook is None or a value [t, v]: a text ("str") or a native date     *)
(* ("datetime") whose v is its 'YYYY-MM-DD' text; a number is held as the  *)
(* text that str() gives for it.  Texts in date columns are ISO dates or   *)
(* words without digits, which dateutil does not parse.                    *)
(***************************************************************************)
MaxParagraphs == 2
SampleMax == 100

Blank == {" ", "\t", "\n"}
RECURSIVE LStrip(_)
LStrip(s) == IF s # <<>> /\ Head(s) \in Blank THEN LStrip(Tail(s)) ELSE s
Strip(s) == Reverse(LStrip(Reverse(LStrip(s))))

\* DocumentChunk.__post_init__: does the constructor raise for the content.
PostInitRaises(content) == content = <<>> \/ Strip(content) = <<>>

\* The chunks built one after the other, up to the first constructor that
\* raises: the list, or the class of the exception that leaves parse().
RECURSIVE Construct(_, _)
Construct(candidates, acc) ==
    IF candidates = <<>> THEN [chunks |-> acc, parse_error |-> None]
    ELSE IF PostInitRaises(Head(candidates).content)
    THEN [chunks |-> <<>>, parse_error |-> Some("ValueError")]
    ELSE Construct(Tail(candidates), Append(acc, Head(candidates)))

\* WordParser.parse: doc.paragraphs are texts, doc.tables are tables, a
\* table is its rows, a row is the texts of its cells.
RECURSIVE WordParagraphs(_, _)
WordParagraphs(paragraphs, para_idx) ==
    IF para_idx >= Len(paragraphs) THEN <<>>
    ELSE LET text == Strip(paragraphs[para_idx + 1])
         IN (IF text # <<>>
             THEN << [content |-> text, file_type |-> "word",
                      metadata |-> [file_type |-> "word",
                                    paragraph_index |-> para_idx]] >>
             ELSE <<>>)
            \o WordParagraphs(paragraphs, para_idx + 1)

RECURSIVE WordRows(_, _, _)
WordRows(table, table_idx, row_idx) ==
    IF row_idx >= Len(table) THEN <<>>
    ELSE LET cells == table[row_idx + 1]
             row_text == Join(<<" ", "|", " ">>,
                              [k \in 1..Len(cells) |-> Strip(cells[k])])
         IN (IF Strip(row_text) # <<>>
             THEN << [content |-> row_text, file_type |-> "word",
                      metadata |-> [file_type |-> "word",
                                    table_index |-> table_idx,
                                    row_index |-> row_idx]] >>
             ELSE <<>>)
            \o WordRows(table, table_idx, row_idx + 1)

RECURSIVE WordTables(_, _)
WordTables(tables, table_idx) ==
    IF table_idx >= Len(tables) THEN <<>>
    ELSE WordRows(tables[table_idx + 1], table_idx, 0)
         \o WordTables(tables, table_idx + 1)

WordParser_parse(doc) ==
    Construct(WordParagraphs(doc.paragraphs, 0) \o WordTables(doc.tables, 0),
              <<>>)

\* re.search of the literal patterns, re.IGNORECASE; "a.*b" is a, then any
\* characters, then b.
MatchesGap(col, a, b) ==
    \E i \in 1..Len(col) :
        /\ i + Len(a) - 1 <= Len(col)
        /\ Lower(SubSeq(col, i, i + Len(a) - 1)) = a
        /\ Contains(Lower(SubSeq(col, i + Len(a), Len(col))), b)

KwDate == <<"d","a","t","e">>
DATE_COLUMN_PATTERNS ==
    {KwDate, <<"l","i","v","r","a","i","s","o","n">>,
     <<"r","e","c","e","p","t","i","o","n">>, <<"c","o","m","m","a","n","d","e">>,
     <<"e","x","p","e","d","i","t","i","o","n">>, <<"e","n","v","o","i">>,
     <<"e","c","h","e","a","n","c","e">>,
     <<"t","i","m","e","s","t","a","m","p">>,
     <<"d","a","t","e","t","i","m","e">>}
DATE_COLUMN_GAP_PATTERNS ==
    {<<"d","e","l","i","v","e","r","y">>, <<"o","r","d","e","r">>,
     <<"s","h","i","p">>, <<"d","u","e">>}
BLACKLIST_PATTERNS ==
    {<<"c","r","e","a","t","e","d","_","a","t">>,
     <<"u","p","d","a","t","e","d","_","a","t">>,
     <<"d","e","l","e","t","e","d","_","a","t">>,
     <<"l","a","s","t","_","m","o","d","i","f","i","e","d">>,
     <<"c","r","e","a","t","e","d","_","b","y">>,
     <<"u","p","d","a","t","e","d","_","b","y">>,
     <<"d","e","l","e","t","e","d","_","b","y">>}

Blacklisted(col) == \E p \in BLACKLIST_PATTERNS : Contains(Lower(col), p)
DateNamed(col) ==
    \/ \E p \in DATE_COLUMN_PATTERNS : Contains(Lower(col), p)
    \/ \E p \in DATE_COLUMN_GAP_PATTERNS : MatchesGap(col, p, KwDate)

\* A DataFrame is [columns, data]: the column names and the rows.  The
\* values of column number k, and those left by dropna().
ColumnValues(df, k) == [r \in 1..Len(df.data) |-> df.data[r][k]]
DropNa(values) == SelectSeq(values, LAMBDA v : v # None)
\* pandas gives a column the dtype datetime64 when it holds native dates
\* and missing values only.
IsDatetimeDtype(values) ==
    /\ DropNa(values) # <<>>
    /\ \A i \in 1..Len(values) : values[i] # None => values[i][1].t = "datetime"
\* _is_valid_date of a value that is not missing.
IsValidDate(value) == value[1].t = "datetime" \/ ParseIsoDate(value[1].v) # None

Min(a, b) == IF a <= b THEN a ELSE b
\* The decision of detect_temporal_columns for column number k of df.  The
\* sample is every non-null value as long as there are at most SampleMax.
IsTemporal(df, k, min_valid_pct) ==
    LET col == df.columns[k]
        values == ColumnValues(df, k)
        non_null_values == DropNa(values)
        sample_size == Min(SampleMax, Len(non_null_values))
        valid_dates ==
            Cardinality({i \in 1..sample_size : IsValidDate(non_null_values[i])})
    IN /\ ~Blacklisted(col)
       /\ DateNamed(col)
       /\ \/ IsDatetimeDtype(values)
          \/ /\ Len(non_null_values) # 0
             /\ ~(Len(non_null_values) * 100 < 10 * Len(df.data))
             /\ valid_dates * 100 >= min_valid_pct * sample_size

min_valid_ratio == 10
detect_temporal_columns(df) ==
    LET ks == SelectSeq([k \in 1..Len(df.columns) |-> k],
                        LAMBDA k : IsTemporal(df, k, min_valid_ratio))
    IN [i \in 1..Len(ks) |-> df.columns[ks[i]]]

\* ExcelParser.parse.  A workbook is its sheets in order; a sheet is
\* [name, rows], the rows being those of the sheet's dimensions, each one
\* the values of its cells.
CellStr(value) ==
    IF value[1].t = "datetime"
    THEN value[1].v \o <<" ","0","0",":","0","0",":","0","0">>
    ELSE value[1].v
CellTruthy(value) == value # None /\ CellStr(value) # <<>>

\* Lines 69-78: the headers of row 1 by column number, and the rows below.
Headers(sheet) ==
    [c \in {k \in 1..Len(sheet.rows[1]) : CellTruthy(sheet.rows[1][k])} |->
        CellStr(sheet.rows[1][c])]
HeaderValues(sheet) ==
    LET cols == SelectSeq([k \in 1..Len(sheet.rows[1]) |-> k],
                          LAMBDA k : k \in DOMAIN Headers(sheet))
    IN [i \in 1..Len(cols) |-> Headers(sheet)[cols[i]]]

\* dt.strftime('%Y-%m-%d') of pd.to_datetime(val), or str(val) when the
\* conversion raises.
FormatTemporal(val) ==
    IF val[1].t = "datetime" THEN val[1].v
    ELSE IF ParseIsoDate(val[1].v) # None
    THEN FormatIsoDate(ParseIsoDate(val[1].v)[1])
    ELSE val[1].v

\* Lines 99-111: the dates of each row of df, by column name.
TemporalDataByRow(df, temporal_cols) ==
    IF temporal_cols = <<>> THEN [row_idx \in {} |-> <<>>]
    ELSE [row_idx \in 0..(Len(df.data) - 1) |->
            LET at(col) == CHOOSE k \in 1..Len(df.columns) : df.columns[k] = col
                names == {temporal_cols[i] : i \in 1..Len(temporal_cols)}
            IN [col \in {n \in names : df.data[row_idx + 1][at(n)] # None} |->
                    FormatTemporal(df.data[row_idx + 1][at(col)])]]

\* Lines 114-147, for the cell number pos of the sheet in row order.
\* temporal_data_by_row is None as long as the local variable is unbound.
RECURSIVE SheetCells(_, _, _, _)
SheetCells(sheet, temporal_data_by_row, pos, acc) ==
    LET width == Len(sheet.rows[1])
        row == ((pos - 1) \div width) + 1
        column == ((pos - 1) % width) + 1
        cell == sheet.rows[row][column]
        row_idx == row - 2
        column_header ==
            IF column \in DOMAIN Headers(sheet) THEN Headers(sheet)[column]
            ELSE <<"C","o","l","u","m","n"," ">> \o NatStr(column)
        base == [file_type |-> "excel", sheet_name |-> sheet.name,
                 cell_ref |-> <<Upper[column]>> \o NatStr(row),
                 row |-> row, column |-> column, value |-> CellStr(cell),
                 column_header |-> column_header]
        attach == /\ row_idx >= 0
                  /\ row_idx \in DOMAIN temporal_data_by_row[1]
                  /\ DOMAIN temporal_data_by_row[1][row_idx] # {}
        metadata ==
            IF attach
            THEN ("temporal_context" :> temporal_data_by_row[1][row_idx]) @@ base
            ELSE base
    IN IF pos > Len(sheet.rows) * width
       THEN [chunks |-> acc, parse_error |-> None]
       ELSE IF cell = None \/ Strip(CellStr(cell)) = <<>>
       THEN SheetCells(sheet, temporal_data_by_row, pos + 1, acc)
       ELSE IF row_idx >= 0 /\ temporal_data_by_row = None
       THEN [chunks |-> <<>>, parse_error |-> Some("UnboundLocalError")]
       ELSE SheetCells(sheet, temporal_data_by_row, pos + 1,
                       Append(acc, [content |-> column_header \o <<":", " ">>
                                                   \o CellStr(cell),
                                    file_type |-> "excel",
                                    metadata |-> metadata]))

\* The loop over workbook.sheetnames, from sheet number i on.
RECURSIVE ParseSheets(_, _, _, _)
ParseSheets(workbook, i, temporal_data_by_row, acc) ==
    IF i > Len(workbook) THEN [chunks |-> acc, parse_error |-> None]
    ELSE LET sheet == workbook[i]
             data == Tail(sheet.rows)
             analysed == data # <<>> /\ DOMAIN Headers(sheet) # {}
             df == [columns |-> HeaderValues(sheet), data |-> data]
             bound == IF analysed
                      THEN Some(TemporalDataByRow(df, detect_temporal_columns(df)))
                      ELSE temporal_data_by_row
         IN IF analysed /\ Len(df.columns) # Len(sheet.rows[1])
            THEN [chunks |-> <<>>, parse_error |-> Some("ValueError")]
            ELSE LET cells == SheetCells(sheet, bound, 1, acc)
                 IN IF cells.parse_error # None THEN cells
                    ELSE ParseSheets(workbook, i + 1, bound, cells.chunks)

ExcelParser_parse(workbook) == ParseSheets(workbook, 1, None, <<>>)

\* The documents given to the parsers.  Word: up to MaxParagraphs
\* paragraphs and at most one table of one or two rows.
WordTexts == {<<>>, <<" ">>, <<"a">>, <<" ", "b", " ">>}
WordCells == UNION {[1..n -> WordTexts] : n \in 1..2}
WordDocs ==
    {[paragraphs |-> ps, tables |-> ts] :
        ps \in UNION {[1..n -> WordTexts] : n \in 0..MaxParagraphs},
        ts \in {<<>>} \cup {<< <<r>> >> : r \in WordCells}
                 \cup {<< <<r, <<<<"a">>, <<>>>> >> >> : r \in WordCells}}

\* Excel: one or two sheets of two columns, with or without a row below
\* the first one; the texts of the first row are distinct.
TxtDate == <<"D","a","t","e">>
TxtQty == <<"Q","t","y">>
Str(v) == Some([t |-> "str", v |-> v])
NativeDate(v) == Some([t |-> "datetime", v |-> v])
HeaderCells == {None, Str(TxtDate), Str(TxtQty), Str(<<" ">>)}
DataCells ==
    {None, NativeDate(<<"2","0","2","4","-","0","1","-","1","5">>),
     Str(<<"2","0","2","4","-","0","2","-","0","1">>), Str(<<"7">>)}
Sheets(name) ==
    LET firsts == {h \in [1..2 -> HeaderCells] : h[1] = None \/ h[1] # h[2]}
    IN {[name |-> name, rows |-> <<h>>] : h \in firsts}
       \cup {[name |-> name, rows |-> <<h, d>>] :
                h \in firsts, d \in [1..2 -> DataCells]}
Workbooks ==
    {<<s>> : s \in Sheets("S1")}
    \cup {<<s1, s2>> : s1 \in Sheets("S1"), s2 \in Sheets("S2")}

\* Tables of one column for detect_temporal_columns: valid dates (texts,
\* or native dates), then texts that are no dates, then missing values.
ColumnNames ==
    {<<"o","r","d","e","r","_","d","a","t","e">>,
     <<"D","u","e"," ","D","a","t","e">>,
     <<"L","i","v","r","a","i","s","o","n">>,
     <<"c","r","e","a","t","e","d","_","a","t">>,
     <<"d","a","t","e","_","u","p","d","a","t","e","d","_","b","y">>,
     <<"s","h","i","p","p","e","d">>}
Column(name, native, valid, invalid, nulls) ==
    [columns |-> <<name>>,
     data |-> [r \in 1..valid |->
                 << IF native
                    THEN NativeDate(<<"2","0","2","5","-","0","1","-","0","1">>)
                    ELSE Str(<<"2","0","2","5","-","0","1","-","0","1">>) >>]
              \o [r \in 1..invalid |-> << Str(<<"n","/","a">>) >>]
              \o [r \in 1..nulls |-> << None >>]]
Tables ==
    {Column(name, native, valid, invalid, nulls) :
        name \in ColumnNames, native \in BOOLEAN, valid \in 0..2,
        invalid \in {0, 9, 10, 19}, nulls \in {0, 9, 10, 19}}
    \ {[columns |-> <<name>>, data |-> <<>>] : name \in ColumnNames}

\* A call is made once for each input: the input is chosen at the start and
\* the method then returns.
ParserCalls ==
    {[op |-> "WordParser.parse", doc |-> doc] : doc \in WordDocs}
    \cup {[op |-> "ExcelParser.parse", workbook |-> workbook] :
              workbook \in Workbooks}
    \cup {[op |-> "detect_temporal_columns", df |-> df] : df \in Tables}

InitCalls(calls) ==
    /\ files = [f \in Files |-> [processing_status |-> "pending",
                                 error_message |-> None,
                                 temporal_metadata |-> None]]
    /\ blob = [f \in Files |-> "workbook"]
    /\ alerts = <<>>
    /\ index = <<>>
    /\ cache = <<>>
    /\ tasks = {}
    /\ results = <<>>
    /\ runs = [w \in Workers |-> Idle]
    /\ now = 0
    /\ next_task = 1
    /\ next_alert = 1
    /\ overlapped = [f \in Files |-> FALSE]
    /\ started = 0
    /\ last \in {Some(call) : call \in calls}
    /\ fetched = [text \in {} |-> None]
    /\ chat = None
InitParse == InitCalls(ParserCalls)

Entered(op) == last # None /\ last[1].op = op /\ "ret" \notin DOMAIN last[1]
Returned(op) == last # None /\ last[1].op = op /\ "ret" \in DOMAIN last[1]
Return(ret) ==
    /\ last' = Some(("ret" :> ret) @@ last[1])
    /\ UNCHANGED <<index, cache, now, fetched, ingestvars, chat>>

ParseWord ==
    /\ Entered("WordParser.parse")
    /\ Return(WordParser_parse(last[1].doc))

ParseExcel ==
    /\ Entered("ExcelParser.parse")
    /\ Return(ExcelParser_parse(last[1].workbook))

DetectTemporalColumns ==
    /\ Entered("detect_temporal_columns")
    /\ Return(detect_temporal_columns(last[1].df))

NextParse ==
    \/ ParseWord
    \/ ParseExcel
    \/ DetectTemporalColumns

SpecParse == InitParse /\ [][NextParse]_vars

\* RAGService.build_rag_context called directly on lists of at most two
\* search results: one result for each file type, with and without a
\* temporal_context in its metadata.  The values of the metadata are the
\* texts that the f-strings give for them.
ContextMetadata ==
    {[filename |-> "orders.xlsx", file_type |-> "excel",
      sheet_name |-> "Orders", cell_ref |-> "A5"],
     [filename |-> "report.pdf", file_type |-> "pdf", page |-> "3"],
     [filename |-> "notes.docx", file_type |-> "word", paragraph_index |-> "4"],
     [filename |-> "deck.pptx", file_type |-> "powerpoint",
      slide_number |-> "2"],
     [filename |-> "orders.csv", file_type |-> "csv", row_number |-> "7"],
     [filename |-> "readme.txt", file_type |-> "text", paragraph_index |-> "0"]}
ContextTemporal ==
    [date_commande |-> "2025-01-15", date_livraison |-> "2025-01-30"]
ContextResults ==
    {[content |-> <<"Commande CMD123">>, metadata |-> m] :
        m \in ContextMetadata}
    \cup {[content |-> <<"Commande CMD456">>,
           metadata |-> ("temporal_context" :> ContextTemporal) @@ m] :
              m \in ContextMetadata}
ContextCalls ==
    {[op |-> "build_rag_context", search_results |-> rs] :
        rs \in UNION {[1..n -> ContextResults] : n \in 0..2}}

BuildRagContext ==
    /\ Entered("build_rag_context")
    /\ Return(build_rag_context(last[1].search_results))

NextContext == BuildRagContext

SpecContext == InitCalls(ContextCalls) /\ [][NextContext]_vars

(***************************************************************************)
(* Properties of process_document.                                         *)
(***************************************************************************)
Status(f) == files[f].processing_status
StatusAfter(f) == files'[f].processing_status

\* The step in which worker w enters process_document.
StartsRun(w) == runs[w] = Idle /\ runs'[w] # Idle
\* The step in which the exception handler of worker w's run completes.
EndsInHandler(w) ==
    runs[w] # Idle /\ runs[w][1].pc = "except" /\ runs'[w] = Idle
\* The step in which worker w's run returns from the try block.
EndsInSuccess(w) ==
    runs[w] # Idle /\ runs[w][1].pc = "finish" /\ runs'[w] = Idle
\* The step in which worker w's run calls index_chunks.
IndexStep(w) ==
    runs[w] # Idle /\ runs[w][1].pc = "index" /\ runs'[w] # Idle
       /\ runs'[w][1].pc # "index"

ForwardTransitions ==
    {<<"pending", "processing">>, <<"processing", "completed">>,
     <<"processing", "failed">>}
RestartTransitions ==
    {<<"completed", "processing">>, <<"failed", "processing">>}
OverlapTransitions ==
    {<<"completed", "failed">>, <<"failed", "completed">>}

C3_FailedIndexingKeepsAlerts ==
    [][/\ \A w \in Workers :
             (EndsInHandler(w) /\ runs[w][1].failed_at = "index") =>
                 /\ StatusAfter(runs[w][1].file) = "failed"
                 /\ alerts' = alerts
                 /\ \A id \in runs[w][1].alert_ids :
                       \E i \in 1..Len(alerts') :
                           /\ alerts'[i].id = id
                           /\ alerts'[i].file_id = runs[w][1].file
       /\ Len(alerts') >= Len(alerts)
       /\ \A i \in 1..Len(alerts) : alerts'[i] = alerts[i]]_vars

\* A run failed at indexing and the alert it had committed is stored.
C3_Witness ==
    /\ Status("f1") = "failed"
    /\ files["f1"].error_message = Some(ErrIndex)
    /\ \A w \in Workers : runs[w] = Idle
    /\ Len(alerts) >= 1
    /\ \A i \in 1..Len(alerts) : alerts[i].file_id = "f1"

\* The failure texts that contain "timeout" or "connection" when lower-cased.
RetryKeywordTexts ==
    {e \in FailureTexts :
        \/ Contains(Lower(e), <<"t","i","m","e","o","u","t">>)
        \/ Contains(Lower(e), <<"c","o","n","n","e","c","t","i","o","n">>)}
HasRetryKeyword(e) == e \in RetryKeywordTexts

\* Delay of the retry sent by a run that has been retried k times already.
RetryDelay == <<1, 5, 25>>

\* C4: the handler sends a retry exactly when the lower-cased text of the
\* error contains "timeout" or "connection" and the task has been retried
\* fewer than 3 times; the retry sent after k retries is delayed 5^k
\* seconds; after 3 retries the failure is final and the file is FAILED; an
\* error without a keyword returns a failure result and sends nothing.
C4_RetryPolicy ==
    [][\A w \in Workers :
          EndsInHandler(w) =>
              LET r == runs[w][1]
                  e == r.exc[1]
                  retry == [id |-> r.task, file |-> r.file,
                            retries |-> r.retries + 1,
                            countdown |-> RetryDelay[r.retries + 1]]
              IN /\ r.retries <= 3
                 /\ (HasRetryKeyword(e) /\ r.retries < 3) =>
                        /\ retry \notin tasks
                        /\ tasks' = tasks \cup {retry}
                        /\ results'[r.task].state = "RETRY"
                 /\ (HasRetryKeyword(e) /\ r.retries = 3) =>
                        /\ tasks' = tasks
                        /\ results'[r.task].state = "FAILURE"
                        /\ StatusAfter(r.file) = "failed"
                 /\ ~HasRetryKeyword(e) =>
                        /\ tasks' = tasks
                        /\ results'[r.task] =
                              [state |-> "SUCCESS",
                               ret |-> Some([success |-> FALSE, error |-> e])]]_vars

\* The task has failed for good after its third retry.
C4_Witness ==
    /\ results[1].state = "FAILURE"
    /\ Status("f1") = "failed"
    /\ started = 4
    /\ \A t \in tasks : t.id # 1

\* C5 as stated: a failure of the parser is never retried, whatever its text.
C5_ParseNeverRetried ==
    [][\A w \in Workers :
          (EndsInHandler(w) /\ runs[w][1].failed_at = "parse") =>
              /\ tasks' = tasks
              /\ StatusAfter(runs[w][1].file) = "failed"]_vars

\* C5 amended: a failure of the parser marks the file FAILED and is not
\* retried unless its text contains one of the two keywords, in which case
\* it is retried like any other failure.
C5_ParseRetriedOnKeywordOnly ==
    [][\A w \in Workers :
          (EndsInHandler(w) /\ runs[w][1].failed_at = "parse") =>
              LET r == runs[w][1]
                  e == r.exc[1]
              IN /\ StatusAfter(r.file) = "failed"
                 /\ tasks' # tasks <=> (HasRetryKeyword(e) /\ r.retries < 3)
                 /\ ~HasRetryKeyword(e) =>
                        results'[r.task].ret =
                            Some([success |-> FALSE, error |-> e])]_vars

\* The parser failed on a workbook part named "connections" and the task is
\* queued again.
C5_Witness ==
    /\ blob["f1"] = "missing_part"
    /\ \E t \in tasks : t.id = 1 /\ t.retries >= 1
    /\ files["f1"].error_message = Some(ErrParseConn)

\* C6: when every embedding fails nothing is indexed and the run ends
\* FAILED; when at least one succeeds, exactly the chunks that have an
\* embedding are added to the index, in chunk order, and the run ends
\* COMPLETED.
C6_EmbeddingFailures ==
    [][/\ \A w \in Workers :
             IndexStep(w) =>
                 LET r == runs[w][1]
                     emb == runs'[w][1].embeddings
                     ok == {i \in 1..Len(Chunks(r)) : emb[i] # None}
                     added == SubSeq(index', Len(index) + 1, Len(index'))
                     pos(i) == Cardinality({j \in ok : j <= i})
                 IN /\ Len(emb) = Len(Chunks(r))
                    /\ SubSeq(index', 1, Len(index)) = index
                    /\ Len(added) = Cardinality(ok)
                    /\ \A i \in ok :
                          /\ added[pos(i)].content = Chunks(r)[i].content
                          /\ added[pos(i)].embedding = emb[i][1]
                    /\ ok = {} => /\ runs'[w][1].pc = "except"
                                  /\ runs'[w][1].failed_at = "index"
                    /\ ok # {} => runs'[w][1].pc = "finish"
       /\ \A w \in Workers :
             (EndsInHandler(w) /\ runs[w][1].failed_at = "index") =>
                 StatusAfter(runs[w][1].file) = "failed"
       /\ \A w \in Workers :
             EndsInSuccess(w) => StatusAfter(runs[w][1].file) = "completed"]_vars

\* One of the two chunks of the file got no embedding; the other one is the
\* only document in the index and the file is COMPLETED.
C6_Witness ==
    /\ Status("f1") = "completed"
    /\ Len(index) = 1
    /\ started = 1
    /\ \A w \in Workers : runs[w] = Idle

HasSummary(row) ==
    /\ row.temporal_metadata # None
    /\ "detected_date_columns" \in DOMAIN row.temporal_metadata[1]

Tabular(f) == FileInfo[f].file_type \in {"excel", "csv"}

\* The run of worker w has called index_chunks.
PastIndexing(w) ==
    /\ runs[w] # Idle
    /\ \/ runs[w][1].pc = "finish"
       \/ runs[w][1].pc = "except" /\ runs[w][1].failed_at = "index"

\* C7 as stated: the temporal summary of an Excel or CSV file is persisted
\* before index_chunks is called, so that a run that is past the call, and a
\* run whose indexing failed, has persisted it.
C7_SummaryBeforeIndexing ==
    \A w \in Workers :
        (PastIndexing(w) /\ Tabular(runs[w][1].file)) =>
            HasSummary(files[runs[w][1].file])

\* C7 amended: the alerts are persisted before index_chunks is called; the
\* temporal summary of an Excel or CSV file is written only by the last
\* step of a run whose indexing succeeded, together with COMPLETED; a run
\* whose indexing fails leaves temporal_metadata as it was.
C7_SummaryAfterIndexing ==
    [][/\ \A w \in Workers :
             IndexStep(w) =>
                 LET r == runs[w][1]
                 IN /\ Cardinality(r.alert_ids) = Len(Found(r))
                    /\ \A id \in r.alert_ids :
                          \E i \in 1..Len(alerts) : alerts[i].id = id
                    /\ files'[r.file] = files[r.file]
       /\ \A f \in Files :
             (~HasSummary(files[f]) /\ HasSummary(files'[f])) =>
                 \E w \in Workers :
                     /\ EndsInSuccess(w)
                     /\ runs[w][1].file = f
                     /\ \E i \in 1..Len(runs[w][1].embeddings) :
                           runs[w][1].embeddings[i] # None
                     /\ StatusAfter(f) = "completed"
       /\ \A w \in Workers :
             (EndsInSuccess(w) /\ Tabular(runs[w][1].file)) =>
                 HasSummary(files'[runs[w][1].file])
       /\ \A w \in Workers :
             (EndsInHandler(w) /\ runs[w][1].failed_at = "index") =>
                 files'[runs[w][1].file].temporal_metadata =
                     files[runs[w][1].file].temporal_metadata]_vars

\* The only run of the file failed at indexing: its alert is stored, the
\* file has no temporal summary.
C7_Witness ==
    /\ Status("f1") = "failed"
    /\ files["f1"].error_message = Some(ErrIndex)
    /\ started = 1
    /\ Len(alerts) >= 1
    /\ ~HasSummary(files["f1"])
    /\ index = <<>>

\* C9: an index_chunks call in which every chunk gets an embedding adds one
\* document per chunk, in chunk order, with the chunk's content and
\* embedding, the owner id, the file id, a chunk id that no other document
\* of the file has, and the expiry "indexing time + 24 hours"; the call
\* succeeds exactly when it has indexed a document.
C9_IndexChunksContract ==
    [][\A w \in Workers :
          IndexStep(w) =>
              LET r == runs[w][1]
                  emb == runs'[w][1].embeddings
                  n == Len(Chunks(r))
                  added == SubSeq(index', Len(index) + 1, Len(index'))
              IN /\ (\A i \in 1..n : emb[i] # None) =>
                     /\ Len(added) = n
                     /\ \A i \in 1..n :
                           /\ added[i].content = Chunks(r)[i].content
                           /\ added[i].embedding = emb[i][1]
                           /\ added[i].user_id = FileInfo[r.file].user_id
                           /\ added[i].file_id = r.file
                           /\ added[i].document_expires_at = now + 24 * 3600
                           /\ \A j \in 1..Len(index') :
                                 (j # Len(index) + i /\ index'[j].file_id = r.file)
                                     => index'[j].chunk_id # added[i].chunk_id
                 /\ runs'[w][1].pc = "finish" <=> Len(added) >= 1
                 /\ (\A i \in 1..n : emb[i] = None) =>
                        runs'[w][1].pc = "except"]_vars

(***************************************************************************)
(* Properties of RAGService.                                               *)
(***************************************************************************)
\* C8: the parameters that hybrid_search sends carry the filter
\* "user_id:=<caller>", followed by "&& file_id:=<file>" when a file is
\* given, and per_page = top_k; every result returned is a document of the
\* index that belongs to the caller (and to the file, when given), and there
\* are at most top_k results.
C8_SearchIsolation ==
    (last # None /\ last[1].op = "hybrid_search") =>
        LET s == last[1]
        IN /\ s.sent # None =>
                 /\ s.sent[1].filter_by =
                       <<"user_id", ":=", s.user_id>>
                       \o (IF s.file_id # None
                           THEN <<"&&", "file_id", ":=", s.file_id[1]>>
                           ELSE <<>>)
                 /\ s.sent[1].per_page = s.top_k
           /\ s.sent = None => s.ret = <<>>
           /\ Len(s.ret) <= s.top_k
           /\ Len(s.ret) = Len(s.hits)
           /\ \A i \in 1..Len(s.ret) :
                 /\ s.ret[i].content = s.hits[i].document.content
                 /\ \E j \in 1..Len(index) : index[j] = s.hits[i].document
                 /\ s.hits[i].document.user_id = s.user_id
                 /\ s.file_id # None =>
                        s.hits[i].document.file_id = s.file_id[1]

\* User u1 searched file fa with top_k = 1 while the index held two
\* documents of fa, one of u1's other file and one of user u2: one document
\* of fa came back.
C8_Witness ==
    /\ last # None
    /\ last[1].op = "hybrid_search"
    /\ last[1].user_id = "u1"
    /\ last[1].file_id = Some("fa")
    /\ last[1].top_k = 1
    /\ Len(last[1].ret) = 1
    /\ Cardinality({j \in 1..Len(index) : index[j].file_id = "fa"}) = 2
    /\ \E j \in 1..Len(index) : index[j].file_id = "fb"
    /\ \E j \in 1..Len(index) : index[j].user_id = "u2"

\* The step in which generate_embedding(text) is called.
EmbedStep(text) ==
    /\ last' # None
    /\ last'[1].op = "generate_embedding"
    /\ last'[1].text = text
    /\ now' = now

\* The endpoint returned a vector for the text less than 24 hours ago.
Fresh(text) == text \in DOMAIN fetched /\ now < fetched[text].at + 86400

\* C10: generate_embedding(text) called less than 24 hours after the
\* endpoint returned a vector for exactly this text calls no endpoint and
\* returns that vector; otherwise it calls the endpoint once and, when the
\* endpoint answers with a vector, returns it and stores it under the key
\* of the text's SHA-256 digest with an expiry of 86400 seconds; a failed
\* call leaves the cache as it was.
C10_EmbeddingCache ==
    [][\A text \in RagTexts :
          EmbedStep(text) =>
              LET s == last'[1]
                  key == <<"embedding:", <<"sha256", text>>>>
              IN /\ Fresh(text) =>
                     /\ s.calls = 0
                     /\ s.ret = Some(fetched[text].vector)
                     /\ cache' = cache
                 /\ ~Fresh(text) =>
                     /\ s.calls = 1
                     /\ s.ret # None =>
                           /\ fetched'[text] = [at |-> now, vector |-> s.ret[1]]
                           /\ key \in DOMAIN cache'
                           /\ cache'[key].expires_at = now + 86400
                           /\ JsonLoads(cache'[key].value) = s.ret[1]
                           /\ \A k \in DOMAIN cache' \ {key} :
                                 k \in DOMAIN cache /\ cache'[k] = cache[k]
                     /\ s.ret = None =>
                           /\ cache' = cache
                           /\ fetched' = fetched]_vars

\* A call made 12 hours after the endpoint returned the text's vector: no
\* endpoint call, the same vector.
C10_Witness ==
    /\ last # None
    /\ last[1].op = "generate_embedding"
    /\ last[1].calls = 0
    /\ last[1].text \in DOMAIN fetched
    /\ fetched[last[1].text].at < now
    /\ last[1].ret = Some(fetched[last[1].text].vector)

\* The endpoint call failed: an exception or an HTTP error, or a body
\* without embedding.
FailedResponse(response) == response.error \/ response.embedding = <<>>

\* The step in which generate_embeddings_batch is called.
BatchStep ==
    /\ last' # None
    /\ last'[1].op = "generate_embeddings_batch"
    /\ now' = now

\* Every cache entry is stored under the key of a text's digest and holds
\* the non-empty vector that the endpoint last returned for that text.
CacheHoldsFetched ==
    \A key \in DOMAIN cache :
        \E text \in RagTexts :
            /\ key = <<"embedding:", <<"sha256", text>>>>
            /\ text \in DOMAIN fetched
            /\ fetched[text].vector # <<>>
            /\ cache[key].value = <<"json", fetched[text].vector>>
            /\ cache[key].expires_at = fetched[text].at + 86400

\* C11: a generate_embedding call whose endpoint call fails returns None (no
\* vector at all) and leaves the cache unchanged; every cache entry holds a
\* non-empty vector that the endpoint returned for a text with that digest;
\* generate_embeddings_batch returns one entry per text, in the order of the
\* texts: the vector returned for that text, or None where the call for that
\* position failed, and the positions after a failure are still computed.
C11_EmbeddingFailure ==
    [][/\ \A text \in RagTexts :
             (EmbedStep(text) /\ last'[1].calls = 1
                  /\ FailedResponse(last'[1].response)) =>
                 /\ last'[1].ret = None
                 /\ cache' = cache
       /\ CacheHoldsFetched'
       /\ BatchStep =>
             LET s == last'[1]
                 n == Len(s.texts)
                 \* an earlier position of the batch fetched the same text
                 Earlier(i) == \E j \in 1..(i - 1) :
                                  /\ s.texts[j] = s.texts[i]
                                  /\ ~FailedResponse(s.responses[j])
                 Called(i) == ~Fresh(s.texts[i]) /\ ~Earlier(i)
             IN /\ Len(s.ret) = n
                /\ \A i \in 1..n :
                      /\ s.ret[i] # None =>
                            /\ s.ret[i][1] # <<>>
                            /\ s.ret[i][1] = fetched'[s.texts[i]].vector
                      /\ (Called(i) /\ FailedResponse(s.responses[i])) =>
                            s.ret[i] = None
                      /\ (~Called(i) \/ ~FailedResponse(s.responses[i])) =>
                            s.ret[i] # None
                /\ s.calls = Cardinality({i \in 1..n : Called(i)})]_vars

\* A batch of two texts in which the call for the first text failed and the
\* call for the second returned a vector, which is now cached; and a batch
\* longer than a sub-batch whose last position got its vector.
C11_Witness ==
    /\ last # None
    /\ last[1].op = "generate_embeddings_batch"
    /\ \/ /\ Len(last[1].texts) = 2
          /\ last[1].ret[1] = None
          /\ last[1].ret[2] # None
          /\ last[1].calls = 2
          /\ <<"embedding:", <<"sha256", last[1].texts[2]>>>> \in DOMAIN cache
          /\ <<"embedding:", <<"sha256", last[1].texts[1]>>>> \notin DOMAIN cache
       \/ /\ Len(last[1].texts) > 10
          /\ last[1].ret[1] = None
          /\ last[1].ret[Len(last[1].texts)] # None

(***************************************************************************)
(* Properties of the chat turn.                                            *)
(***************************************************************************)
\* The turn has left the gather of the two searches.
PastSearches == chat.pc \in {"context", "generate", "stream", "except", "save", "done"}
\* The query embedding of the turn is available.
HasQueryEmbedding == chat.query_embedding # None
\* The query embedding of the turn was asked for and is absent.
QueryEmbeddingFailed ==
    chat.pc \notin {"idle", "embed"} /\ chat.query_embedding = None

RECURSIVE ConcatContents(_)
ConcatContents(chunks) ==
    IF chunks = <<>> THEN <<>>
    ELSE chunks[1].content \o ConcatContents(Tail(chunks))

\* C12: in a chat turn of a conversation that has uploaded files, the query
\* embedding is computed once, the knowledge-base search and the
\* user-document search both query the index with that embedding without
\* computing another one, and both return their results to the turn.
C12_SharedEmbedding ==
    (chat.files # {} /\ HasQueryEmbedding /\ PastSearches) =>
        /\ chat.embed_calls <= 1
        /\ chat.kb_task.state = "done"
        /\ chat.kb_task.sent = chat.query_embedding
        /\ chat.docs_task.state = "done"
        /\ chat.docs_task.sent = chat.query_embedding
        /\ chat.failed_at # "search"
        /\ chat.pc # "except" =>
              /\ chat.knowledge_results = chat.kb_task.ret
              /\ chat.search_results = chat.docs_task.ret

\* C13: in a chat turn of a conversation that has uploaded files, once the
\* query embedding is available the two searches are started together,
\* before either has completed; the turn goes on only after both have
\* completed; and the context built from two non-empty results is the
\* knowledge-base block followed by the user-document block.
C13_ConcurrentSearches ==
    (chat.files # {} /\ HasQueryEmbedding) =>
        /\ chat.kb_task.state = "idle" <=> chat.docs_task.state = "idle"
        /\ PastSearches =>
              /\ chat.kb_task.state = "done"
              /\ chat.docs_task.state = "done"
        /\ (chat.prompt # None /\ chat.knowledge_results # <<>>
                /\ chat.search_results # <<>>) =>
              chat.rag_context =
                  build_knowledge_context(chat.knowledge_results)
                  \o <<"\n\n">> \o build_rag_context(chat.search_results)

\* C14: in a turn whose query embedding failed, no search is started, no
\* error of the turn comes from the embedding or from a search, the
\* generation endpoint is called with the messages of the turn, and when
\* the generation does not fail the chunks sent are the tokens followed by
\* the normal final chunk and the assistant message is saved with the
\* tokens as content.
C14_UngroundedAnswer ==
    QueryEmbeddingFailed =>
        /\ chat.kb_task = NoTask
        /\ chat.docs_task = NoTask
        /\ chat.failed_at \in {"none", "generation"}
        /\ chat.pc \in {"stream", "save", "done", "except"} => chat.prompt # None
        /\ (chat.pc = "done" /\ chat.failed_at = "none") =>
              LET n == Len(chat.sent)
              IN /\ n >= 1
                 /\ chat.sent[n] = [content |-> <<>>, is_final |-> TRUE]
                 /\ \A i \in 1..(n - 1) :
                       ~chat.sent[i].is_final /\ chat.sent[i].content # <<>>
                 /\ chat.writes = 1
                 /\ chat.messages[Len(chat.messages)] =
                       [role |-> "assistant",
                        content |-> ConcatContents(SubSeq(chat.sent, 1, n - 1))]

\* The query embedding failed in a conversation with a file; a token was
\* streamed, then the final chunk, and the assistant message is saved.
C14_Witness ==
    /\ QueryEmbeddingFailed
    /\ chat.files # {}
    /\ chat.embed_calls = 1
    /\ chat.pc = "done"
    /\ chat.failed_at = "none"
    /\ Len(chat.sent) = 2
    /\ chat.sent[2].is_final
    /\ chat.messages[Len(chat.messages)].role = "assistant"
    /\ chat.messages[Len(chat.messages)].content = chat.sent[1].content

\* The turn has ended with a failure of the generation call.
GenerationFailed == chat.pc = "done" /\ chat.failed_at = "generation"

\* C15: when the generation call fails, before the first token or in the
\* middle of the stream, the client has received the tokens streamed so far
\* followed by exactly one chunk that is marked final and carries the error
\* message; no chunk is sent after a final chunk; and the assistant message
\* is saved with the tokens followed by the error text as content.
C15_GenerationFailure ==
    [][/\ GenerationFailed' =>
             LET c == chat'
                 n == Len(c.sent)
             IN /\ n >= 1
                /\ c.sent[n].is_final
                /\ \E e \in GenErrors :
                      c.sent[n].content =
                          <<"\n\n⚠ Erreur lors de la génération de la réponse: ",
                            "Erreur de connexion à Ollama: ">> \o e
                /\ \A i \in 1..(n - 1) :
                      ~c.sent[i].is_final /\ c.sent[i].content # <<>>
                /\ c.writes = 1
                /\ c.messages[Len(c.messages)] =
                      [role |-> "assistant",
                       content |-> ConcatContents(c.sent)]
       /\ (chat.turn = chat'.turn /\ chat.sent # <<>>
              /\ chat.sent[Len(chat.sent)].is_final) =>
             chat'.sent = chat.sent]_vars

\* The generation failed after one token: the client got the token and the
\* error chunk, and the message saved holds both.
C15_Witness ==
    /\ GenerationFailed
    /\ Len(chat.sent) = 2
    /\ ~chat.sent[1].is_final
    /\ chat.sent[2].is_final
    /\ chat.read >= 1
    /\ chat.messages[Len(chat.messages)].content =
          chat.sent[1].content \o chat.sent[2].content

\* The nothing-found markers.
Markers == {NothingFound, NothingFoundInDocuments}
\* The searches of the turn ran and returned no result.
SearchedFoundNothing ==
    /\ chat.kb_task.state = "done"
    /\ chat.docs_task.state = "done"
    /\ chat.knowledge_results = <<>>
    /\ chat.search_results = <<>>

\* C16: build_rag_context of an empty result list is a non-empty marker; the
\* context handed to the generation prompt is a nothing-found marker when
\* the searches of the turn ran and returned no result, and is not a
\* nothing-found marker when the retrieval was skipped because the query
\* embedding failed.
C16_MarkerDistinguishes ==
    /\ build_rag_context(<<>>) # <<>>
    /\ chat.prompt # None =>
          /\ (HasQueryEmbedding /\ SearchedFoundNothing) =>
                chat.rag_context \in Markers
          /\ QueryEmbeddingFailed => chat.rag_context \notin Markers

\* The contents of the assistant messages of the conversation.
AssistantMessages(messages) ==
    SelectSeq(messages, LAMBDA m : m.role = "assistant")

\* C17: the assistant message of a turn is written at most once, in a step
\* that follows the final chunk, and its content is the concatenation, in
\* the order sent, of the contents of all the chunks sent to the client; a
\* cancelled turn reads no further line of the generation stream, sends no
\* chunk and writes no message, alert, file row or index document.
C17_MessageWrittenOnce ==
    [][/\ chat'.writes <= 1
       /\ Len(AssistantMessages(chat'.messages)) <= chat'.turn
       /\ AssistantMessages(chat'.messages) # AssistantMessages(chat.messages) =>
             /\ chat.writes = 0
             /\ chat.pc = "save"
             /\ chat.sent # <<>>
             /\ chat.sent[Len(chat.sent)].is_final
             /\ chat'.sent = chat.sent
             /\ chat'.messages =
                   Append(chat.messages,
                          [role |-> "assistant",
                           content |-> ConcatContents(chat.sent)])
       /\ (chat.pc = "cancelled" /\ chat'.turn = chat.turn) =>
             /\ chat'.pc = "cancelled"
             /\ chat'.messages = chat.messages
             /\ chat'.read = chat.read
             /\ chat'.sent = chat.sent
             /\ chat'.writes = 0
             /\ <<alerts, files, index, cache>>' = <<alerts, files, index, cache>>]_vars

\* A turn was cancelled after a token had been sent, while the knowledge
\* search was never started: no assistant message exists.
C17_Witness ==
    /\ chat.pc = "cancelled"
    /\ Len(chat.sent) >= 1
    /\ ~chat.sent[Len(chat.sent)].is_final
    /\ chat.read >= 1
    /\ chat.writes = 0
    /\ AssistantMessages(chat.messages) = <<>>

(***************************************************************************)
(* Properties of SupplyChainAlertDetector.                                 *)
(***************************************************************************)
\* The last call was the method op of the detector.
LastCall(op) == last # None /\ last[1].op = op

\* The keywords that name a quantity column and those that name a stock
\* column only.
QuantityWords ==
    {<<"q","u","a","n","t","i","t","y">>, <<"q","t","y">>, <<"q","u","a","n","t","i","t","é">>, <<"q","t","é">>}
StockWords ==
    {<<"s","t","o","c","k">>, <<"i","n","v","e","n","t","o","r","y">>, <<"i","n","v","e","n","t","a","i","r","e">>}
IsQuantityHeader(header) == \E k \in QuantityWords : Contains(Lower(header), k)
IsStockHeader(header) == \E k \in StockWords : Contains(Lower(header), k)

\* The cell value is a negative number (a comma is a decimal separator).
NegativeCell(chunk) ==
    LET v == ParseFloat(ReplaceComma(chunk.metadata.value))
    IN v # None /\ NumLtZero(v[1])

AlertTypes(found) == {found[i].alert_type : i \in 1..Len(found)}

\* C18: for an Excel chunk with a negative value, detect_negative_quantity
\* returns exactly one negative_quantity alert of severity warning carrying
\* the value when the column header names a quantity ("Quantity",
\* "Quantité"), and no alert when the header also names a stock ("Stock
\* Quantity"); no Excel cell yields both a negative_stock and a
\* negative_quantity alert.
C18_NegativeQuantity ==
    /\ (LastCall("detect_negative_quantity")
           /\ last[1].chunk.file_type = "excel" /\ NegativeCell(last[1].chunk)) =>
          LET chunk == last[1].chunk
              header == chunk.metadata.column_header
          IN /\ (IsQuantityHeader(header) /\ ~IsStockHeader(header)) =>
                    /\ Len(last[1].ret) = 1
                    /\ last[1].ret[1].alert_type = "negative_quantity"
                    /\ last[1].ret[1].severity = "warning"
                    /\ Some(last[1].ret[1].value) =
                          ParseFloat(ReplaceComma(chunk.metadata.value))
             /\ IsStockHeader(header) => last[1].ret = <<>>
    /\ (LastCall("detect_all_alerts") /\ last[1].chunk.file_type = "excel") =>
          ~({"negative_stock", "negative_quantity"} \subseteq AlertTypes(last[1].ret))

\* The negative numbers among the numeric tokens of a content.
NegativeTokens(content) ==
    SelectSeq(FindNumbers(content, 1, TRUE),
              LAMBDA tok : NumLtZero(ParseFloat(tok)[1]))

\* C19: for a CSV chunk whose content contains a stock keyword,
\* detect_negative_stock returns one critical negative_stock alert per
\* negative numeric token of the content, in the order of the tokens,
\* however many stock keywords the content contains.
C19_OneAlertPerNegativeToken ==
    (LastCall("detect_negative_stock") /\ last[1].chunk.file_type = "csv"
        /\ AnyKeywordIn(stock_keywords, Lower(last[1].chunk.content))) =>
        LET negative == NegativeTokens(last[1].chunk.content)
        IN /\ Len(last[1].ret) = Len(negative)
           /\ \A i \in 1..Len(last[1].ret) :
                 /\ last[1].ret[i].alert_type = "negative_stock"
                 /\ last[1].ret[i].severity = "critical"
                 /\ i <= Len(negative) =>
                       Some(last[1].ret[i].value) = ParseFloat(negative[i])

\* The outliers among the numeric tokens: <<severity, value>> for each
\* token above max_days or strictly between 0 and min_days.
RECURSIVE Outliers(_, _, _)
Outliers(tokens, max_days, min_days) ==
    IF tokens = <<>> THEN <<>>
    ELSE LET v == ParseFloat(tokens[1])[1]
             above == ~v.neg /\ (v.int > max_days \/ (v.int = max_days /\ v.frac # <<>>))
             below == ~v.neg /\ v.int < min_days /\ ~(v.int = 0 /\ v.frac = <<>>)
         IN (IF above THEN << <<"warning", v>> >>
             ELSE IF below THEN << <<"info", v>> >> ELSE <<>>)
            \o Outliers(Tail(tokens), max_days, min_days)

\* C20: detect_all_alerts over a chunk of any source type whose content
\* contains "lead time" or "délai" in any case returns, for each numeric
\* token of the content, one lead_time_outlier alert of severity warning if
\* the value is above max_lead_time_days, one of severity info if it is
\* between 0 and min_lead_time_days, and none otherwise, with the
\* thresholds of the detector (90 and 1 unless they were set).
C20_LeadTimeOutliers ==
    /\ alert_detector = [max_lead_time_days |-> 90, min_lead_time_days |-> 1]
    /\ (LastCall("detect_all_alerts")
           /\ \/ Contains(Lower(last[1].chunk.content), <<"l","e","a","d"," ","t","i","m","e">>)
              \/ Contains(Lower(last[1].chunk.content), <<"d","é","l","a","i">>)) =>
          LET found == SelectSeq(last[1].ret,
                                 LAMBDA a : a.alert_type = "lead_time_outlier")
          IN [i \in 1..Len(found) |-> <<found[i].severity, found[i].value>>]
               = Outliers(FindNumbers(last[1].chunk.content, 1, FALSE),
                          last[1].self.max_lead_time_days,
                          last[1].self.min_lead_time_days)

(***************************************************************************)
(* Properties of the parsers and of detect_temporal_columns.               *)
(***************************************************************************)
SheetNamed(workbook, name) ==
    workbook[CHOOSE i \in 1..Len(workbook) : workbook[i].name = name]
BlankCell(value) == value = None \/ Strip(CellStr(value)) = <<>>
BlankRow(cells) == \A k \in 1..Len(cells) : Strip(cells[k]) = <<>>

\* C21: every chunk that WordParser.parse or ExcelParser.parse returns has
\* a content that is not blank, and comes from a unit that is not blank: a
\* paragraph with text, a table row with text in at least one cell, a cell
\* with a value that is not blank.
C21_NoBlankChunks ==
    /\ Returned("WordParser.parse") =>
          LET doc == last[1].doc
              chunks == last[1].ret.chunks
          IN \A i \in 1..Len(chunks) :
                LET m == chunks[i].metadata
                IN /\ Strip(chunks[i].content) # <<>>
                   /\ "paragraph_index" \in DOMAIN m =>
                         Strip(doc.paragraphs[m.paragraph_index + 1]) # <<>>
                   /\ "row_index" \in DOMAIN m =>
                         ~BlankRow(doc.tables[m.table_index + 1][m.row_index + 1])
    /\ Returned("ExcelParser.parse") =>
          LET chunks == last[1].ret.chunks
          IN \A i \in 1..Len(chunks) :
                LET m == chunks[i].metadata
                IN /\ Strip(chunks[i].content) # <<>>
                   /\ ~BlankCell(SheetNamed(last[1].workbook,
                                            m.sheet_name).rows[m.row][m.column])


\* The cells of a sheet that hold a value, in row order, each with the
\* content "{column_header}: {cell_value}" whose header is the value of the
\* first row of the cell's column, or "Column {index}" when there is none.
CellContents(sheet) ==
    LET width == Len(sheet.rows[1])
        RowOf(pos) == ((pos - 1) \div width) + 1
        ColumnOf(pos) == ((pos - 1) % width) + 1
        filled == SelectSeq([pos \in 1..(Len(sheet.rows) * width) |-> pos],
                            LAMBDA pos : ~BlankCell(sheet.rows[RowOf(pos)][ColumnOf(pos)]))
        HeaderOf(c) == IF sheet.rows[1][c] = None \/ CellStr(sheet.rows[1][c]) = <<>>
                       THEN <<"C","o","l","u","m","n"," ">> \o NatStr(c)
                       ELSE CellStr(sheet.rows[1][c])
    IN [i \in 1..Len(filled) |->
          [sheet_name |-> sheet.name, row |-> RowOf(filled[i]),
           column |-> ColumnOf(filled[i]),
           content |-> HeaderOf(ColumnOf(filled[i])) \o <<":", " ">>
                       \o CellStr(sheet.rows[RowOf(filled[i])][ColumnOf(filled[i])])]]
RECURSIVE WorkbookContents(_)
WorkbookContents(workbook) ==
    IF workbook = <<>> THEN <<>>
    ELSE CellContents(Head(workbook)) \o WorkbookContents(Tail(workbook))

\* C22: ExcelParser.parse raises for no workbook and returns one chunk for
\* each cell that holds a value, sheet after sheet, with the content
\* "{column_header}: {cell_value}", the header being "Column {index}" for
\* a column whose first-row cell is empty, also in a sheet that has rows
\* below the first one.
C22_ExcelChunks ==
    Returned("ExcelParser.parse") =>
        LET ret == last[1].ret
        IN /\ ret.parse_error = None
           /\ [i \in 1..Len(ret.chunks) |->
                 [sheet_name |-> ret.chunks[i].metadata.sheet_name,
                  row |-> ret.chunks[i].metadata.row,
                  column |-> ret.chunks[i].metadata.column,
                  content |-> ret.chunks[i].content]]
              = WorkbookContents(last[1].workbook)


\* C23: detect_temporal_columns returns a column if and only if its name
\* is not blacklisted and either its values have the native date type, or
\* its name matches a date pattern, at least 10% of its non-null values
\* parse as dates and at least 10% of its values are not null.
C23_TemporalColumns ==
    Returned("detect_temporal_columns") =>
        LET df == last[1].df
            ret == last[1].ret
        IN \A k \in 1..Len(df.columns) :
              LET values == ColumnValues(df, k)
                  non_null == DropNa(values)
                  valid == Cardinality({i \in 1..Len(non_null) :
                                           IsValidDate(non_null[i])})
              IN (\E i \in 1..Len(ret) : ret[i] = df.columns[k])
                 <=> /\ ~Blacklisted(df.columns[k])
                     /\ \/ IsDatetimeDtype(values)
                        \/ /\ DateNamed(df.columns[k])
                           /\ non_null # <<>>
                           /\ 10 * valid >= Len(non_null)
                           /\ 10 * Len(non_null) >= Len(values)


\* A sheet has an analysable table when it has a header and a row below it;
\* the table is well formed when every column has a header.
Analysable(sheet) ==
    /\ Len(sheet.rows) > 1
    /\ \E c \in 1..Len(sheet.rows[1]) : CellTruthy(sheet.rows[1][c])
WellFormed(sheet) ==
    \A c \in 1..Len(sheet.rows[1]) : CellTruthy(sheet.rows[1][c])

\* C30: in the chunks that ExcelParser.parse returns, a temporal_context
\* holds only dates of the chunk's own sheet and row, under the names of
\* columns of that sheet; no chunk of a sheet without an analysable table
\* has one; and a workbook whose analysable sheets are well formed is
\* parsed without error.
C30_OwnSheetTemporalContext ==
    Returned("ExcelParser.parse") =>
        LET workbook == last[1].workbook
            ret == last[1].ret
        IN /\ (\A s \in 1..Len(workbook) :
                  Analysable(workbook[s]) => WellFormed(workbook[s]))
              => ret.parse_error = None
           /\ \A i \in 1..Len(ret.chunks) :
                 LET m == ret.chunks[i].metadata
                     sheet == SheetNamed(workbook, m.sheet_name)
                 IN "temporal_context" \in DOMAIN m =>
                       /\ Analysable(sheet)
                       /\ m.row > 1
                       /\ \A col \in DOMAIN m.temporal_context :
                             \E c \in 1..Len(sheet.rows[1]) :
                                /\ sheet.rows[1][c] # None
                                /\ CellStr(sheet.rows[1][c]) = col
                                /\ sheet.rows[m.row][c] # None
                                /\ m.temporal_context[col]
                                      = FormatTemporal(sheet.rows[m.row][c])


(***************************************************************************)
(* Properties of build_rag_context.                                        *)
(***************************************************************************)
\* Do the elements of small occur in big, in this order.
RECURSIVE Scattered(_, _)
Scattered(small, big) ==
    IF small = <<>> THEN TRUE
    ELSE IF big = <<>> THEN FALSE
    ELSE IF Head(small) = Head(big) THEN Scattered(Tail(small), Tail(big))
    ELSE Scattered(small, Tail(big))

\* What the citation of a result shows: the fields of its source type.
CitationFields(metadata) ==
    IF metadata.file_type = "excel"
    THEN <<metadata.sheet_name, metadata.cell_ref>>
    ELSE IF metadata.file_type = "pdf" THEN <<metadata.page>>
    ELSE IF metadata.file_type = "word" THEN <<metadata.paragraph_index>>
    ELSE IF metadata.file_type = "powerpoint" THEN <<metadata.slide_number>>
    ELSE IF metadata.file_type = "csv" THEN <<metadata.row_number>>
    ELSE <<>>
RECURSIVE Blocks(_, _)
Blocks(search_results, idx) ==
    IF idx > Len(search_results) THEN <<>>
    ELSE <<"[Source ">> \o NatStr(idx)
         \o <<search_results[idx].metadata.filename>>
         \o CitationFields(search_results[idx].metadata)
         \o search_results[idx].content
         \o Blocks(search_results, idx + 1)

\* The context shows a block for each result, in order and numbered from 1.
RendersBlocks ==
    Returned("build_rag_context") /\ last[1].search_results # <<>> =>
        Scattered(Blocks(last[1].search_results, 1), last[1].ret)

\* C24: build_rag_context renders one block per search result, in input
\* order and numbered from 1, with the citation fields of the result's
\* source type and then the content; the context also shows the column
\* names and the dates of the temporal_context of a result that has one.
C24_ContextBlocks ==
    /\ RendersBlocks
    /\ Returned("build_rag_context") =>
          \A i \in 1..Len(last[1].search_results) :
             LET m == last[1].search_results[i].metadata
             IN "temporal_context" \in DOMAIN m =>
                   \A col \in DOMAIN m.temporal_context :
                      \E j, k \in 1..Len(last[1].ret) :
                         /\ last[1].ret[j] = col
                         /\ last[1].ret[k] = m.temporal_context[col]


(***************************************************************************)
(* Properties of re-processing.                                            *)
(***************************************************************************)
\* The file's temporal_metadata holds a configuration of the user.
UserConfigured(row) ==
    /\ row.temporal_metadata # None
    /\ \E config \in Configs :
          \/ /\ config.date_columns # None
             /\ "user_configured_columns" \in DOMAIN row.temporal_metadata[1]
             /\ row.temporal_metadata[1].user_configured_columns
                   = config.date_columns
          \/ /\ config.lead_time_pairs # None
             /\ "user_configured_lead_time_pairs"
                   \in DOMAIN row.temporal_metadata[1]
             /\ row.temporal_metadata[1].user_configured_lead_time_pairs
                   = config.lead_time_pairs
\* The run of worker w executes a task that update_temporal_config sent
\* (the task of the upload has the first id).
Reprocessing(w) == runs[w] # Idle /\ runs[w][1].task > 1

\* C25: when a run that update_temporal_config triggered returns with
\* success, the file's temporal_metadata still holds the configuration of
\* the user that it held before.
C25_ConfigSurvives ==
    [][\A w \in Workers :
          (Reprocessing(w) /\ EndsInSuccess(w)
           /\ UserConfigured(files[runs[w][1].file]))
          => UserConfigured(files'[runs[w][1].file])]_vars


AlertsOf(f) == SelectSeq(alerts, LAMBDA a : a.file_id = f)
DocumentsOf(f) == SelectSeq(index, LAMBDA d : d.file_id = f)

\* C26: whatever runs of process_document have taken place, the alerts
\* stored for a file are those that one run detects, each stored once, and
\* no two documents of the index have the same chunk id.
C26_Idempotent ==
    \A f \in Files :
       LET stored == AlertsOf(f)
           found == Found([file |-> f])
       IN /\ Len(stored) <= Len(found)
          /\ \A i \in 1..Len(stored) :
                /\ stored[i].alert_type = found[i].alert_type
                /\ stored[i].value = Some(FloatStr(found[i].value))
          /\ \A i, j \in 1..Len(DocumentsOf(f)) :
                i # j => DocumentsOf(f)[i].chunk_id # DocumentsOf(f)[j].chunk_id


\* The step in which the run of worker w ends, in whatever way.
EndsRun(w) == runs[w] # Idle /\ runs'[w] = Idle

\* C28: when a run of process_document ends, by success, in the handler
\* (also when the update of the failure status fails, also after the last
\* retry) or by the time limit, the file is COMPLETED or FAILED.
C28_NoRunLeavesProcessing ==
    [][\A w \in Workers :
          EndsRun(w) => StatusAfter(runs[w][1].file) \in {"completed", "failed"}]_vars


(***************************************************************************)
(* Properties of the life of the indexed documents.                        *)
(***************************************************************************)
\* The step in which hybrid_search returns.
SearchStep == last' # last /\ last' # None /\ last'[1].op = "hybrid_search"

\* C29: every document that hybrid_search returns has an expiry timestamp
\* that has not passed and belongs to a file that has not been deleted.
C29_LiveDocumentsOnly ==
    [][SearchStep =>
          \A i \in 1..Len(last'[1].hits) :
             LET doc == last'[1].hits[i].document
             IN /\ doc.document_expires_at >= now'
                /\ doc.file_id \in DOMAIN files']_vars

(***************************************************************************)
(* Properties of interleaved chat turns.                                    *)
(***************************************************************************)
FinalEvents(sent) == {i \in 1..Len(sent) : sent[i].is_final}

\* C27: every chat turn that ends without being cancelled has sent exactly
\* one final event to the client and has persisted exactly one assistant
\* message, whatever the interleaving of two send_message requests on the
\* conversation.
C27_OneFinalEventOneMessage ==
    \A r \in Requests :
        chat.requests[r].pc = "done" =>
            /\ Cardinality(FinalEvents(chat.requests[r].sent)) = 1
            /\ chat.requests[r].writes = 1

====
